---------------------------- MODULE Spec2Model ----------------------------
(***************************************************************************)
(* A model of the ao3 tag scraper: the URL canonicalizer (ao3/__url.py),   *)
(* the Tag value and the TagSet container (ao3/tags.py) and the paginated  *)
(* search crawler TagSearch (ao3/tags.py).                                 *)
(*                                                                         *)
(* Text is modelled as a sequence of tokens.  A token is either one        *)
(* character that matters to URL handling ("%", "&", "=", "+", " ", "/",   *)
(* "?", ...), the two hex digits that follow a "%" ("26", "3D", ...), or a *)
(* run of unreserved characters ("page", "tags", "a").  Percent-encoding   *)
(* and decoding are computed on these tokens, so "%2526" is the three      *)
(* tokens "%", "25", "26" and decodes to "%", "26" and then to "&".        *)
(***************************************************************************)
EXTENDS Integers, Sequences, FiniteSets, TLC

(***************************************************************************)
(* Bounds of the model.                                                    *)
(***************************************************************************)
MaxPages == 3
MaxDepth == 4
MaxPairs == 2

None == "None"

\* the value of a function [x \in {v} |-> e]: e for x = v, with v computed
\* once
With(f) == f[CHOOSE x \in DOMAIN f : TRUE]

(***************************************************************************)
(* Generic helpers on token sequences.                                     *)
(***************************************************************************)
RECURSIVE Concat(_)
Concat(ss) == IF ss = <<>> THEN <<>> ELSE Head(ss) \o Concat(Tail(ss))

StartsWith(s, p) == Len(s) >= Len(p) /\ SubSeq(s, 1, Len(p)) = p

Drop(s, k) == SubSeq(s, k + 1, Len(s))

Range(s) == {s[i] : i \in 1..Len(s)}

RECURSIVE LStrip(_, _)
LStrip(s, c) == IF s # <<>> /\ Head(s) = c THEN LStrip(Tail(s), c) ELSE s

RECURSIVE RStrip(_, _)
RStrip(s, c) ==
  IF s # <<>> /\ s[Len(s)] = c THEN RStrip(SubSeq(s, 1, Len(s) - 1), c) ELSE s

Strip(s, c) == RStrip(LStrip(s, c), c)

\* the index of the first token of s, from index i on, that is in stop;
\* Len(s) + 1 when there is none
RECURSIVE FindAny(_, _, _)
FindAny(s, stop, i) ==
  IF i > Len(s) THEN Len(s) + 1
  ELSE IF s[i] \in stop THEN i ELSE FindAny(s, stop, i + 1)

\* str.find(c) + 1: the index of the first occurrence of token c, 0 for none
Find(s, c) ==
  With([i \in {FindAny(s, {c}, 1)} |-> IF i > Len(s) THEN 0 ELSE i])

\* str.split(c): the segments between the occurrences of c
RECURSIVE SplitOn(_, _)
SplitOn(s, c) ==
  With([i \in {Find(s, c)} |->
    IF i = 0 THEN <<s>>
    ELSE <<SubSeq(s, 1, i - 1)>> \o SplitOn(Drop(s, i), c)])

\* str.split(c, 1)
SplitOnce(s, c) ==
  With([i \in {Find(s, c)} |->
    IF i = 0 THEN <<s>> ELSE <<SubSeq(s, 1, i - 1), Drop(s, i)>>])

\* str.replace(a, b) for single tokens
ReplaceTok(s, a, b) == [i \in 1..Len(s) |-> IF s[i] = a THEN b ELSE s[i]]

(***************************************************************************)
(* urllib.parse: quote, quote_plus, unquote, unquote_plus.                 *)
(***************************************************************************)
HexTokens == {"20", "25", "26", "2B", "2F", "3D", "3F", "5B", "5D", "E2%9C%93"}

\* "CHECKMARK" stands for the one character U+2713 (the value of utf8) and
\* "E2%9C%93" for the hex digits of its three percent-encoded bytes.
HexChar(h) ==
  CASE h = "20" -> " "
    [] h = "25" -> "%"
    [] h = "26" -> "&"
    [] h = "2B" -> "+"
    [] h = "2F" -> "/"
    [] h = "3D" -> "="
    [] h = "3F" -> "?"
    [] h = "5B" -> "["
    [] h = "5D" -> "]"
    [] h = "E2%9C%93" -> "CHECKMARK"

\* the characters quote(safe='') escapes; every other token is unreserved
ReservedChars == {" ", "%", "&", "+", "/", "=", "?", "[", "]", "CHECKMARK"}

CharHex(c) == CHOOSE h \in HexTokens : HexChar(h) = c

RECURSIVE unquote(_)
unquote(s) ==
  IF s = <<>> THEN <<>>
  ELSE IF Head(s) = "%" /\ Len(s) >= 2 /\ s[2] \in HexTokens
       THEN <<HexChar(s[2])>> \o unquote(Drop(s, 2))
       ELSE <<Head(s)>> \o unquote(Tail(s))

unquote_plus(s) == unquote(ReplaceTok(s, "+", " "))

QuoteChar(c, safe) ==
  IF c \in ReservedChars /\ c \notin safe THEN <<"%", CharHex(c)>> ELSE <<c>>

quote(s, safe) == Concat([i \in 1..Len(s) |-> QuoteChar(s[i], safe)])

quote_plus(s, safe) == ReplaceTok(quote(s, safe \cup {" "}), " ", "+")

(***************************************************************************)
(* Results of operations that can fail: Ok(v) or Fail(e), e naming the     *)
(* exception (the spec's error names are noted where the code raises).     *)
(***************************************************************************)
Ok(v) == [error |-> "", value |-> v]

Fail(e) == [error |-> e]

(***************************************************************************)
(* urllib.parse.urlsplit and SplitResult.geturl on token sequences.        *)
(***************************************************************************)
SplitResult(scheme, netloc, path, query, fragment) ==
  [scheme |-> scheme, netloc |-> netloc, path |-> path, query |-> query,
   fragment |-> fragment]

\* tokens that hold a character that cannot be part of a URL scheme
NonSchemeTokens ==
  {"/", "?", "=", "&", "%", "[", "]", " ", "#", ":", "CHECKMARK", "&amp;"}

Lower(t) ==
  CASE t = "WWW." -> "www."
    [] t = "HTTPS" -> "https"
    [] t = "ArchiveOfOurOwn.org" -> "archiveofourown.org"
    [] OTHER -> t

LowerSeq(s) == [i \in 1..Len(s) |-> Lower(s[i])]

urlsplit(url) ==
  With([c \in {Find(url, ":")} |->
  With([hasScheme \in {c > 1 /\ \A j \in 1..(c - 1) :
                                  url[j] \notin NonSchemeTokens} |->
  With([u1 \in {IF hasScheme THEN Drop(url, c) ELSE url} |->
  With([hasNetloc \in {StartsWith(u1, <<"/", "/">>)} |->
  With([e \in {FindAny(u1, {"/", "?", "#"}, 3)} |->
  With([f \in {SplitOnce(IF hasNetloc THEN Drop(u1, e - 1) ELSE u1, "#")} |->
  With([q \in {SplitOnce(f[1], "?")} |->
    SplitResult(IF hasScheme THEN LowerSeq(SubSeq(url, 1, c - 1)) ELSE <<>>,
                IF hasNetloc THEN SubSeq(u1, 3, e - 1) ELSE <<>>,
                q[1],
                IF Len(q) = 2 THEN q[2] ELSE <<>>,
                IF Len(f) = 2 THEN f[2] ELSE <<>>)])])])])])])])

\* urlunsplit, as SplitResult.geturl() calls it
geturl(r) ==
  (IF r.scheme # <<>> THEN r.scheme \o <<":">> ELSE <<>>)
  \o (IF r.netloc # <<>>
      THEN <<"/", "/">> \o r.netloc
           \o (IF r.path # <<>> /\ Head(r.path) # "/" THEN <<"/">> ELSE <<>>)
      ELSE <<>>)
  \o r.path
  \o (IF r.query # <<>> THEN <<"?">> \o r.query ELSE <<>>)
  \o (IF r.fragment # <<>> THEN <<"#">> \o r.fragment ELSE <<>>)

(***************************************************************************)
(* class URLs (ao3/__url.py).                                              *)
(***************************************************************************)
protocol == <<"https">>

protocol_prefix == <<"https", ":", "/", "/">>

domain == <<"archiveofourown.org">>

domain_www == <<"www.", "archiveofourown.org">>

tag_root == <<"/", "tags", "/">>

tag_search_root == <<"/", "tags", "/", "search">>

\* URLs.split(url, check_domain, unquote, to_abs); unquote is 0, 1 or 2.
\* The asserts raise AssertionError (the spec's InvalidURL).
split(url, check_domain, unquote_arg, to_abs) ==
  With([u2 \in {LStrip(IF unquote_arg = 2 THEN unquote_plus(url)
                       ELSE IF unquote_arg = 1 THEN unquote(url) ELSE url,
                       "/")} |->
  With([parts \in {urlsplit(IF \/ StartsWith(u2, domain)
                               \/ StartsWith(u2, domain_www)
                            THEN protocol_prefix \o u2 ELSE u2)} |->
  With([d1 \in {IF /\ parts.netloc # <<>>
                   /\ Lower(Head(parts.netloc)) = "www."
                THEN Tail(parts.netloc) ELSE parts.netloc} |->
    IF d1 # <<>> /\ check_domain /\ d1 # domain THEN Fail("InvalidURL")
    ELSE Ok(SplitResult(IF to_abs THEN protocol ELSE <<>>,
                        IF ~to_abs THEN <<>>
                        ELSE IF d1 = <<>> THEN domain ELSE d1,
                        <<"/">> \o LStrip(parts.path, "/"),
                        parts.query, parts.fragment))])])])

\* one name[=value] field of urllib.parse.parse_qsl
ParseField(f, keep_blank_values, strict_parsing) ==
  IF f = <<>> /\ ~strict_parsing THEN [kind |-> "skip"]
  ELSE With([nv \in {SplitOnce(f, "=")} |->
         IF Len(nv) # 2 /\ strict_parsing THEN [kind |-> "bad"]
         ELSE IF Len(nv) # 2 /\ ~keep_blank_values THEN [kind |-> "skip"]
         ELSE With([val \in {IF Len(nv) = 2 THEN nv[2] ELSE <<>>} |->
                IF val # <<>> \/ keep_blank_values
                THEN [kind |-> "pair",
                      k |-> unquote(ReplaceTok(nv[1], "+", " ")),
                      v |-> unquote(ReplaceTok(val, "+", " "))]
                ELSE [kind |-> "skip"]])])

\* urllib.parse.parse_qsl: Ok(list of [k, v]) or Fail("ValueError")
parse_qsl(qs, keep_blank_values, strict_parsing) ==
  With([args \in {IF qs = <<>> THEN <<>> ELSE SplitOn(qs, "&")} |->
  With([fields \in {[i \in 1..Len(args) |->
                       ParseField(args[i], keep_blank_values,
                                  strict_parsing)]} |->
    IF \E i \in 1..Len(fields) : fields[i].kind = "bad"
    THEN Fail("ValueError")
    ELSE With([pairs \in {SelectSeq(fields, LAMBDA x : x.kind = "pair")} |->
           Ok([i \in 1..Len(pairs) |->
                 [k |-> pairs[i].k, v |-> pairs[i].v]])])])])

\* quote_f / unquote_f of override_query: mode 1, 2 or anything else (dummy)
QuoteBy(mode, s) ==
  IF mode = 1 THEN quote(s, {}) ELSE IF mode = 2 THEN quote_plus(s, {}) ELSE s

UnquoteBy(mode, s) ==
  IF mode = 1 THEN unquote(s) ELSE IF mode = 2 THEN unquote_plus(s) ELSE s

\* urlencode(query_list, doseq=False, quote_via=quote_f)
unsplit_qs(list, mode) ==
  Concat([i \in 1..Len(list) |->
            QuoteBy(mode, list[i].k) \o <<"=">> \o QuoteBy(mode, list[i].v)
            \o (IF i < Len(list) THEN <<"&">> ELSE <<>>)])

\* TagSearch.__query_sort_override_weights
query_sort_override_weights(key) ==
  CASE key = <<"utf8">> -> -11
    [] key = <<"query", "[", "name", "]">> -> -2
    [] key = <<"query", "[", "type", "]">> -> -1
    [] key = <<"view_adult">> -> 10
    [] key = <<"page">> -> 11
    [] OTHER -> 0

SortWeights == <<-11, -2, -1, 0, 10, 11>>

\* a sort that leaves the list in the order it has
query_sort_keep_order(list) == list

\* sorted(enumerate(query_list), key=TagSearch.__query_sort_key): by
\* (weight of the key, original index)
query_sort(list) ==
  With([w \in {[i \in 1..Len(list) |->
                 query_sort_override_weights(list[i].k)]} |->
    Concat([j \in 1..Len(SortWeights) |->
              With([at \in {{i \in 1..Len(list) : w[i] = SortWeights[j]}} |->
                [i \in 1..Cardinality(at) |->
                   list[CHOOSE x \in at :
                          Cardinality({y \in at : y < x}) = i - 1]]])])])

\* A keyword argument of override_query: key k, value v, or none (None).
Kw(k, v) == [k |-> k, v |-> v, none |-> FALSE]

KwNone(k) == [k |-> k, v |-> <<>>, none |-> TRUE]

\* the "replace/remove existing keys" step: what becomes of one pair
Overridden(p, kwargs) ==
  With([at \in {{i \in 1..Len(kwargs) : kwargs[i].k = p.k}} |->
    IF at = {} THEN <<p>>
    ELSE With([a \in {kwargs[CHOOSE i \in at : TRUE]} |->
           IF a.none THEN <<>> ELSE <<[k |-> p.k, v |-> a.v]>>])])

\* an override that keeps the pairs whose key is overridden with None
override_pairs_keep_none(query_list, kwargs) ==
  With([new \in {SelectSeq(kwargs, LAMBDA a :
                   /\ ~a.none
                   /\ \A i \in 1..Len(query_list) : query_list[i].k # a.k)} |->
    query_list \o [i \in 1..Len(new) |-> [k |-> new[i].k, v |-> new[i].v]]])

\* the "replace/remove existing keys" and "add new keys" steps
override_pairs(query_list, kwargs) ==
  With([replaced \in {Concat([i \in 1..Len(query_list) |->
                                Overridden(query_list[i], kwargs)])} |->
  With([present_keys \in {{replaced[i].k : i \in 1..Len(replaced)}} |->
  With([new \in {SelectSeq(kwargs, LAMBDA a :
                   ~a.none /\ a.k \notin present_keys)} |->
    replaced \o [i \in 1..Len(new) |-> [k |-> new[i].k, v |-> new[i].v]]])])])

\* the query_list of override_query before it is compiled back
override_list(url_split, keep_blank_values, strict_parsing, unquote_mode, sorted, kwargs) ==
  With([query_list \in {parse_qsl(UnquoteBy(unquote_mode,
                                            ReplaceTok(url_split.query,
                                                       "&amp;", "&")),
                                  keep_blank_values, strict_parsing)} |->
    IF query_list.error # "" THEN query_list
    ELSE With([list \in {override_pairs(query_list.value, kwargs)} |->
           Ok(IF sorted THEN query_sort(list) ELSE list)])])

\* URLs.override_query; sorted says whether query_sort_key_f is given (the
\* only sort key of the repository is TagSearch.__query_sort_key)
override_query(url_split, keep_blank_values, strict_parsing, unquote_mode, quote_mode, sorted, kwargs) ==
  With([list \in {override_list(url_split, keep_blank_values, strict_parsing,
                                unquote_mode, sorted, kwargs)} |->
    IF list.error # "" THEN list
    ELSE Ok([url_split EXCEPT !.query = unsplit_qs(list.value, quote_mode)])])


(***************************************************************************)
(* class TagSearch (ao3/tags.py): construction and URL derivation.         *)
(***************************************************************************)
page == <<"page">>

utf8 == <<"utf8">>

view_adult == <<"view_adult">>

stored_url_override_query == <<KwNone(page), KwNone(utf8)>>

search_override_query == <<Kw(utf8, <<"CHECKMARK">>)>>

\* the keyword arguments TagSearch.__init__ passes to override_query
InitKwargs(adult) ==
  <<IF adult THEN Kw(view_adult, <<"true">>) ELSE KwNone(view_adult)>>
  \o stored_url_override_query

\* a constructor that takes any path of the site
TagSearchInitAnyPath(url_in, adult) ==
  With([url_split \in {split(IF StartsWith(url_in, <<"?">>)
                             THEN tag_search_root \o url_in ELSE url_in,
                             TRUE, 0, TRUE)} |->
    IF url_split.error # "" THEN url_split
    ELSE override_query(url_split.value, TRUE, TRUE, 2, 0, TRUE,
                        InitKwargs(adult))])

\* TagSearch.__init__(url, view_adult): the held url, or the failure.
\* The assert on the path is the spec's NotASearchPage.
TagSearchInit(url_in, adult) ==
  With([url_split \in {split(IF StartsWith(url_in, <<"?">>)
                             THEN tag_search_root \o url_in ELSE url_in,
                             TRUE, 0, TRUE)} |->
    IF url_split.error # "" THEN url_split
    ELSE IF ~StartsWith(url_split.value.path, tag_search_root)
    THEN Fail("NotASearchPage")
    ELSE override_query(url_split.value, TRUE, TRUE, 2, 0, TRUE,
                        InitKwargs(adult))])

\* a page URL that never carries the page number
PageUrlNoPage(u, x) ==
  override_query(u, TRUE, TRUE, 2, 2, TRUE,
                 <<KwNone(page)>> \o search_override_query)

\* the URL of page x as page_urls and load_tags derive it
PageUrl(u, x) ==
  override_query(u, TRUE, TRUE, 2, 2, TRUE,
                 <<IF x > 1 THEN Kw(page, <<ToString(x)>>) ELSE KwNone(page)>>
                 \o search_override_query)

\* TagSearch.page_urls(n, skip_first): Ok(list of URLs), or the ValueError
\* of the first page whose override_query raises
page_urls(u, n, skip_first) ==
  With([from \in {IF skip_first THEN 2 ELSE 1} |->
  With([to \in {IF n > 1 THEN n ELSE 1} |->
  With([one \in {[i \in 1..(to - from + 1) |-> PageUrl(u, from + i - 1)]} |->
    IF \E i \in 1..Len(one) : one[i].error # "" THEN Fail("ValueError")
    ELSE Ok([i \in 1..Len(one) |-> geturl(one[i].value)])])])])

\* the name load_tags gives the TagSet
StoredName(u) ==
  With([r \in {override_query(u, FALSE, TRUE, 2, 0, TRUE,
                              stored_url_override_query)} |->
    IF r.error # "" THEN r ELSE Ok(r.value.query)])

(***************************************************************************)
(* class Tag (ao3/tags.py).  A Tag is a record of its eleven fields; name  *)
(* and url_token are token sequences, type is a TagType member, a raw      *)
(* label or None, canonical is "True", "False" or None, date is NoDate or  *)
(* a time.                                                                 *)
(***************************************************************************)
NoDate == [set |-> FALSE, t |-> 0]

Tag(type, name, url_token, canonical, usages, date, refs) ==
  [type |-> type, name |-> name, url_token |-> url_token,
   canonical |-> canonical, usages |-> usages, date |-> date,
   synonyms |-> refs[1], parents |-> refs[2], children |-> refs[3],
   subtags |-> refs[4], metatags |-> refs[5]]

NoRefs == <<{}, {}, {}, {}, {}>>

\* hash_id as the plain tuple comparison of a NamedTuple would have it
hash_id_with_type(t) == <<t.type, t.name, t.url_token>>

\* hash_id that leaves the token out
hash_id_name_only(t) == <<t.name, t.name>>

\* Tag.hash_id
hash_id(t) == <<t.name, t.url_token>>

\* Tag.__eq__ and Tag.__hash__ come from the CustomHash mixin, which compares
\* and hashes hash_id (Tag's docstring: only name and url_token are used);
\* other is a Tag
TagEq(t, other) == hash_id(t) = hash_id(other)

\* tag == tuple: the tuple is compared with hash_id
TagEqTuple(t, tuple) == hash_id(t) = tuple

TagHash(t) == hash_id(t)

\* type_parse_map.get(type_str, str(type_str))
type_parse_map(label) ==
  CASE label = "Fandom" -> "TagType.Fandom"
    [] label = "Character" -> "TagType.Character"
    [] label = "Relationship" -> "TagType.Relationship"
    [] label = "Freeform" -> "TagType.Freeform"
    [] label = "UnsortedTag" -> "TagType.Unsorted"
    [] OTHER -> label

token_match_name_indicator == <<"/">>

\* URLs.tag_url_re_match: the text is a tag URL, rooted or absolute
tag_url_re_match(s) ==
  \/ StartsWith(s, tag_root)
  \/ StartsWith(s, protocol_prefix \o domain \o tag_root)
  \/ StartsWith(s, protocol_prefix \o domain_www \o tag_root)
  \/ StartsWith(s, domain \o tag_root)
  \/ StartsWith(s, domain_www \o tag_root)

\* a cleaning that only trims the slashes around the token
clean_url_token_trim_only(url_token, name) ==
  Ok(Strip(IF url_token = token_match_name_indicator THEN name
           ELSE url_token, "/"))

\* Tag._clean_args._clean_url_token: Ok(token) or the failure of URLs.split
clean_url_token(url_token, name) ==
  With([t1 \in {IF url_token = token_match_name_indicator
                THEN name ELSE url_token} |->
  With([sp \in {IF tag_url_re_match(t1) THEN split(t1, TRUE, 1, FALSE)
                ELSE Ok(SplitResult(<<>>, <<>>, t1, <<>>, <<>>))} |->
    IF sp.error # "" THEN sp
    ELSE IF StartsWith(sp.value.path, tag_root)
    THEN Ok(Head(SplitOn(Strip(Drop(sp.value.path, Len(tag_root)), "/"),
                         "/")))
    ELSE Ok(Strip(sp.value.path, "/"))])])

\* Tag.new_instance(type, name, url_token, canonical) with usages, date and
\* the reference sets left at their defaults, as build_from_li calls it:
\* Ok(Tag), or Fail("InvalidTag") where an assert of _clean_args fails
new_instance(type, name, url_token, canonical) ==
  IF name = <<>> THEN Fail("InvalidTag")
  ELSE With([tok \in {clean_url_token(url_token, name)} |->
         IF tok.error # "" THEN tok
         ELSE IF "/" \in Range(tok.value) THEN Fail("InvalidTag")
         ELSE Ok(Tag(type, name, tok.value,
                     IF canonical THEN "True" ELSE "False", -1, NoDate,
                     NoRefs))])

\* Tag.build_from_li: li is the <li> of a search page, read as the label
\* before the link, the link's text and href, and whether the enclosing
\* span has the class canonical
build_from_li(li) ==
  new_instance(type_parse_map(li.label), li.text, li.href, li.canonical)

(***************************************************************************)
(* class TagSet (ao3/tags.py): a Python set of Tags with a name.  A set    *)
(* keeps the element it already holds when an equal one is added.          *)
(***************************************************************************)
TagSet(name) == [name |-> name, tags |-> {}]

\* an add that overwrites the element it already holds
TagSetAddReplace(ts, t) ==
  [ts EXCEPT !.tags = {m \in @ : hash_id(m) # hash_id(t)} \cup {t}]

\* set.add as TagSet.update applies it to each tag
TagSetAdd(ts, t) ==
  IF \E m \in ts.tags : TagEq(m, t) THEN ts
  ELSE [ts EXCEPT !.tags = @ \cup {t}]


(***************************************************************************)
(* Search pages as the crawler reads them.  A document is what the parser  *)
(* finds in it: its <ol class="pagination"> (each a list of <li>: its      *)
(* classes and the text of its link) and its <ol class="tag index group">  *)
(* (each a list of tag <li>).                                              *)
(***************************************************************************)
Digits == {ToString(k) : k \in 0..9}

\* int(n_str) for a text that was stripped: Ok(number) or Fail("ValueError")
IntOf(s) ==
  IF Len(s) = 1 /\ s[1] \in Digits
  THEN Ok(CHOOSE k \in 0..9 : ToString(k) = s[1])
  ELSE Fail("ValueError")

\* a scan that skips one trailing item marked next
LastSkipOneNext(lis) ==
  IF lis = <<>> THEN 0
  ELSE IF "next" \in lis[Len(lis)].class THEN Len(lis) - 1
  ELSE Len(lis)

\* TagSearch.__detect_pages_number; the assert is the spec's MalformedPager
RECURSIVE LastNotNext(_)
LastNotNext(lis) ==
  IF lis = <<>> THEN 0
  ELSE IF "next" \in lis[Len(lis)].class
       THEN LastNotNext(SubSeq(lis, 1, Len(lis) - 1))
       ELSE Len(lis)

detect_pages_number(pager_ol) ==
  With([i \in {LastNotNext(pager_ol)} |->
    IF i = 0 THEN Fail("MalformedPager")
    ELSE IntOf(Strip(pager_ol[i].text, " "))])

\* TagSearch.__tags_from_single_search_page: the <li> of the one tag list
\* (the tags are built lazily, as the result is consumed); the assert is the
\* spec's AmbiguousPage
tags_from_single_search_page(doc) ==
  IF Len(doc.lists) # 1 THEN Fail("AmbiguousPage") ELSE Ok(doc.lists[1])

\* the pages the site may answer with
PagerLi(k) == [class |-> {}, text |-> <<" ", ToString(k), " ">>]

NextLi == [class |-> {"next"}, text |-> <<"Next">>]

Pager(k, withNext) ==
  [i \in 1..k |-> PagerLi(i)] \o (IF withNext THEN <<NextLi>> ELSE <<>>)

Pagers ==
  {Pager(k, TRUE) : k \in 1..MaxPages}
  \cup {Pager(2, FALSE), <<>>, <<NextLi>>}

PagerLists ==
  {<<>>} \cup {<<p>> : p \in Pagers} \cup {<<Pager(2, TRUE), Pager(2, TRUE)>>}

TagLi(label, text, href, canonical) ==
  [label |-> label, text |-> text, href |-> href, canonical |-> canonical]

liA == TagLi("Character", <<"A">>, <<"/", "tags", "/", "A">>, TRUE)

\* the same name and token as liA, another type and canonical state
liA2 == TagLi("Fandom", <<"A">>, <<"/", "tags", "/", "A", "/", "works">>, FALSE)

\* the name of liA under another token
liAB == TagLi("Foo", <<"A">>, protocol_prefix \o domain \o tag_root \o <<"B">>,
              FALSE)

\* a link without text
liBad == TagLi("Character", <<>>, <<"/", "tags", "/", "B">>, FALSE)

FirstTagLists ==
  {<<>>, <<liA>>, <<liA, liAB>>, <<liA, liA2>>, <<liAB, liBad>>}

\* the tag lists of a first page: none, two, or one of FirstTagLists
FirstPageLists ==
  {<<>>, <<<<liA>>, <<liAB>>>>} \cup {<<x>> : x \in FirstTagLists}

Doc(pagers, lists) == [pagers |-> pagers, lists |-> lists]

Response(code, doc) == [code |-> code, doc |-> doc]

StatusCodes == {200, 500}

\* an answer with an error status carries an error page: no pager
FirstResponses ==
  {Response(200, Doc(p, l)) : p \in PagerLists, l \in FirstPageLists}
  \cup {Response(500, Doc(<<>>, l)) : l \in FirstPageLists}

\* a later page has the pager of the search; one page has lost it, and one
\* has a second tag list
OtherResponses ==
  {Response(200, Doc(<<Pager(2, TRUE)>>, <<<<liA>>>>)),
   Response(200, Doc(<<>>, <<<<liA2>>>>)),
   Response(200, Doc(<<Pager(2, TRUE)>>, <<<<liBad>>>>)),
   Response(200, Doc(<<Pager(2, TRUE)>>, <<<<liA>>, <<liBad>>>>)),
   Response(500, Doc(<<>>, <<>>))}

NoResponse == Response(0, Doc(<<>>, <<>>))


(***************************************************************************)
(* The state.                                                              *)
(*   pc        where the TagSearch object and its load_tags() call are     *)
(*   arg       the caller's arguments: url, view_adult, cache, and the     *)
(*             cache file as it was before the call                        *)
(*   url       TagSearch.url: Ok(SplitResult), or the constructor's error  *)
(*   call      the last direct call of page_urls / of the name derivation  *)
(*   requests  the URLs fetched so far, in order                           *)
(*   first     the response to the first page                              *)
(*   n         the number of pages detected                                *)
(*   pending   the pages requested from the fetch collaborator and not yet *)
(*             delivered                                                   *)
(*   others    other_pages_content: (url, code, document) as delivered,   *)
(*             each with the number of the page it answers                 *)
(*   queue     the tag <li> that res.update() still has to consume         *)
(*   log       the tags res.update() was handed so far, in order           *)
(*   res       the TagSet being filled                                     *)
(*   returned  what load_tags() returned                                   *)
(*   error     the exception raised, "" when none                          *)
(*   cache     the cache file of this search                               *)
(*   ta, tb, cmp  two Tag values and the result of comparing them          *)
(*   heap      the set objects that exist, by identity, with their         *)
(*             elements                                                    *)
(***************************************************************************)
VARIABLES pc, arg, url, call, requests, first, n, pending, others, queue,
          log, res, returned, error, cache, ta, tb, cmp, heap, db

vars == <<pc, arg, url, call, requests, first, n, pending, others, queue,
          log, res, returned, error, cache, ta, tb, cmp, heap, db>>

NoUrl == Fail("NotConstructed")

NoCall ==
  [op |-> "", n |-> 0, skip_first |-> FALSE, result |-> Fail("NotCalled")]

NotReturned == [is |-> FALSE, set |-> TagSet(<<>>)]

AbsentFile == [state |-> "absent", name |-> <<>>, tags |-> {}]

\* a cache file left by an earlier crawl of the same search
OldFile == [state |-> "old", name |-> <<>>, tags |-> {}]

NoTag == Tag(None, <<>>, <<>>, None, -1, NoDate, NoRefs)

\* no set object exists
NoHeap == <<>>

\* a StoriesDatabase without stories
NoStories == <<>>

NoCmp == [done |-> FALSE, eq |-> FALSE, hash_eq |-> FALSE, pair_eq |-> FALSE,
          triple_eq |-> FALSE]

Arg(u, adult, c, file) ==
  [url |-> u, view_adult |-> adult, cache |-> c, file |-> file]

\* c percent-encoded d times
RECURSIVE Enc(_, _)
Enc(s, d) == IF d = 0 THEN s ELSE Enc(quote(s, {}), d - 1)

\* a value that holds the text "&page=5", percent-encoded d times
Inj(d) == <<"x">> \o Enc(<<"&">>, d) \o <<"page">> \o Enc(<<"=">>, d) \o <<"5">>

query_name == <<"query", "[", "name", "]">>

InKeys == {page, utf8, query_name, <<"a">>}

InValues == {<<"x">>, <<>>} \cup {Inj(d) : d \in 1..MaxDepth}

InPairs == {k \o <<"=">> \o v : k \in InKeys, v \in InValues}

\* the query strings of at most k pairs
RECURSIVE Queries(_)
Queries(k) ==
  IF k = 0 THEN {<<>>}
  ELSE With([shorter \in {Queries(k - 1)} |->
         shorter \cup InPairs
         \cup {q \o <<"&">> \o p : q \in shorter \ {<<>>}, p \in InPairs}])

\* inputs of the constructor other than a bare query
OtherUrls ==
  {<<"?", "a">>,
   <<"/", "tags", "/", "A">>,
   <<>>,
   <<"example.com", "/", "tags", "/", "search", "?", "a", "=", "x">>,
   <<"/", "tags", "/", "search", "?", "page", "=", "3", "&", "a", "=", "x">>,
   protocol_prefix \o <<"WWW.">> \o domain \o tag_search_root
     \o <<"?", "utf8", "=", "%", "E2%9C%93", "&amp;", "a", "=", "x">>}

QueryArgs ==
  {Arg(u, TRUE, FALSE, AbsentFile) :
     u \in {<<"?">> \o q : q \in Queries(MaxPairs)} \cup OtherUrls}

\* the searches the crawler is run on
PlainQuery ==
  <<"?", "query", "[", "name", "]", "=", "foo", "&", "page", "=", "3", "&",
    "utf8", "=", "CHECKMARK">>

HiddenPagesQuery ==
  <<"?">> \o query_name \o <<"=">> \o Inj(2) \o <<"&", "a", "=">> \o Inj(2)

CrawlArgs ==
  {Arg(PlainQuery, TRUE, TRUE, OldFile),
   Arg(HiddenPagesQuery, TRUE, TRUE, AbsentFile),
   Arg(PlainQuery, FALSE, FALSE, OldFile),
   Arg(<<"/", "tags", "/", "A">>, TRUE, TRUE, AbsentFile),
   Arg(<<"?", "a">>, TRUE, TRUE, AbsentFile)}

TagValues ==
  {Tag(ty, nm, tok, ca, us, da, <<sy, {}, {}, {}, {}>>) :
     ty \in {None, "TagType.Character"}, nm \in {<<"A">>, <<"B">>},
     tok \in {<<"A">>, <<"B">>}, ca \in {"True", "False"}, us \in {-1, 3},
     da \in {NoDate, [set |-> TRUE, t |-> 1]}, sy \in {{}, {<<"A">>}}}

InitCommon ==
  /\ pc = "New"
  /\ url = NoUrl
  /\ call = NoCall
  /\ requests = <<>>
  /\ first = NoResponse
  /\ n = 0
  /\ pending = {}
  /\ others = <<>>
  /\ queue = <<>>
  /\ log = <<>>
  /\ res = TagSet(<<>>)
  /\ returned = NotReturned
  /\ error = ""
  /\ cmp = NoCmp
  /\ db = NoStories

Init ==
  /\ InitCommon
  /\ arg \in CrawlArgs
  /\ cache = arg.file
  /\ ta = NoTag
  /\ tb = NoTag
  /\ heap = NoHeap

InitQuery ==
  /\ InitCommon
  /\ arg \in QueryArgs
  /\ cache = arg.file
  /\ ta = NoTag
  /\ tb = NoTag
  /\ heap = NoHeap

InitTag ==
  /\ InitCommon
  /\ arg = Arg(<<>>, TRUE, FALSE, AbsentFile)
  /\ cache = arg.file
  /\ ta \in TagValues
  /\ tb \in TagValues
  /\ heap = NoHeap

(***************************************************************************)
(* TagSearch(url, view_adult).                                             *)
(***************************************************************************)
Construct ==
  /\ pc = "New"
  /\ \E u \in {TagSearchInit(arg.url, arg.view_adult)} :
       /\ url' = u
       /\ pc' = IF u.error = "" THEN "Initialized" ELSE "NoObject"
       /\ error' = u.error
  /\ UNCHANGED <<arg, call, requests, first, n, pending, others, queue, log,
                 res, returned, cache, ta, tb, cmp, heap, db>>

\* a direct call of page_urls(k, skip_first)
CallPageUrls ==
  /\ pc = "Initialized"
  /\ call.op = ""
  /\ \E k \in 0..MaxPages, skip \in BOOLEAN :
       call' = [op |-> "page_urls", n |-> k, skip_first |-> skip,
                result |-> page_urls(url.value, k, skip)]
  /\ UNCHANGED <<pc, arg, url, requests, first, n, pending, others, queue,
                 log, res, returned, error, cache, ta, tb, cmp, heap, db>>

\* the name load_tags derives for its TagSet
CallStoredName ==
  /\ pc = "Initialized"
  /\ call.op = ""
  /\ call' = [op |-> "name", n |-> 0, skip_first |-> FALSE,
              result |-> StoredName(url.value)]
  /\ UNCHANGED <<pc, arg, url, requests, first, n, pending, others, queue,
                 log, res, returned, error, cache, ta, tb, cmp, heap, db>>

(***************************************************************************)
(* TagSearch.load_tags(cache), step by step.                               *)
(***************************************************************************)
\* load_tags() raises e: nothing is returned, and nothing else changes
Raise(e) ==
  /\ pc' = "Failed"
  /\ error' = e
  /\ UNCHANGED <<arg, url, call, requests, first, n, pending, others, queue,
                 log, res, returned, cache, ta, tb, cmp, heap, db>>

\* the TagSet is named, the first page's URL derived and fetched; the status
\* of the response is not looked at
LoadBegin ==
  /\ pc = "Initialized"
  /\ \E nm \in {StoredName(url.value)} :
       IF nm.error # "" THEN Raise(nm.error)
       ELSE \E first_url \in {PageUrl(url.value, 1)} :
              IF first_url.error # "" THEN Raise(first_url.error)
              ELSE /\ \E r \in FirstResponses : first' = r
                   /\ requests' = <<geturl(first_url.value)>>
                   /\ res' = TagSet(nm.value)
                   /\ pc' = "FirstPageFetched"
                   /\ UNCHANGED <<arg, url, call, n, pending, others, queue,
                                  log, returned, error, cache, ta, tb, cmp,
                                  heap, db>>

\* the pagers of the first page decide between a single page and many
ReadFirstPage ==
  /\ pc = "FirstPageFetched"
  /\ IF first.doc.pagers = <<>>
     THEN \E lis \in {tags_from_single_search_page(first.doc)} :
            IF lis.error # "" THEN Raise(lis.error)
            ELSE /\ queue' = lis.value
                 /\ pc' = "SinglePage"
                 /\ UNCHANGED <<arg, url, call, requests, first, n, pending,
                                others, log, res, returned, error, cache,
                                ta, tb, cmp, heap, db>>
     ELSE IF Len(first.doc.pagers) # 1 THEN Raise("AmbiguousPage")
     ELSE \E pages \in {detect_pages_number(first.doc.pagers[1])} :
            IF pages.error # "" THEN Raise(pages.error)
            ELSE IF ~(pages.value > 1) THEN Raise("AssertionError")
            ELSE /\ n' = pages.value
                 /\ pc' = "MultiPageDetected"
                 /\ UNCHANGED <<arg, url, call, requests, first, pending,
                                others, queue, log, res, returned, error,
                                cache, ta, tb, cmp, heap, db>>

\* the URLs of pages 2..n are handed to the fetch collaborator
FetchOthers ==
  /\ pc = "MultiPageDetected"
  /\ \E us \in {page_urls(url.value, n, TRUE)} :
       IF us.error # "" THEN Raise(us.error)
       ELSE /\ requests' = requests \o us.value
            /\ pending' = 2..n
            /\ pc' = "Fetching"
            /\ UNCHANGED <<arg, url, call, first, n, others, queue, log,
                           res, returned, error, cache, ta, tb, cmp, heap, db>>

\* the collaborator delivers the result of one of the pages, in any order
Deliver ==
  /\ pc = "Fetching"
  /\ \E k \in pending, r \in OtherResponses :
       /\ others' = Append(others, [page |-> k, url |-> requests[k],
                                    code |-> r.code, doc |-> r.doc])
       /\ pending' = pending \ {k}
  /\ UNCHANGED <<pc, arg, url, call, requests, first, n, queue, log, res,
                 returned, error, cache, ta, tb, cmp, heap, db>>

\* a chain that forgets the pages after the first
ChainListsFirstOnly(page_soups) ==
  With([l \in {tags_from_single_search_page(page_soups[1])} |->
    IF l.error # "" THEN Fail("AmbiguousPage") ELSE Ok(l.value)])

\* chain(*map(__tags_from_single_search_page, page_soups)): the <li> of the
\* tag lists of the pages in the order of page_soups, or the failure of the
\* first page without exactly one tag list
ChainLists(page_soups) ==
  With([lists \in {[i \in 1..Len(page_soups) |->
         tags_from_single_search_page(page_soups[i])]} |->
    IF \E i \in 1..Len(lists) : lists[i].error # ""
    THEN Fail("AmbiguousPage")
    ELSE Ok(Concat([i \in 1..Len(lists) |-> lists[i].value]))])

\* every status is checked, then every page's tag list located
Collect ==
  /\ pc = "Fetching"
  /\ pending = {}
  /\ IF \E i \in 1..Len(others) : others[i].code # 200
     THEN Raise("UpstreamError")
     ELSE \E lis \in {ChainLists(<<first.doc>>
                        \o [i \in 1..Len(others) |-> others[i].doc])} :
            IF lis.error # "" THEN Raise(lis.error)
            ELSE /\ queue' = lis.value
                 /\ pc' = "PagesFetched"
                 /\ UNCHANGED <<arg, url, call, requests, first, n, pending,
                                others, log, res, returned, error, cache,
                                ta, tb, cmp, heap, db>>

\* res.update() builds the next tag and adds it
MergeOne ==
  /\ pc \in {"SinglePage", "PagesFetched"}
  /\ queue # <<>>
  /\ \E t \in {build_from_li(Head(queue))} :
       IF t.error # "" THEN Raise(t.error)
       ELSE /\ res' = TagSetAdd(res, t.value)
            /\ log' = Append(log, t.value)
            /\ queue' = Tail(queue)
            /\ UNCHANGED <<pc, arg, url, call, requests, first, n, pending,
                           others, returned, error, cache, ta, tb, cmp, heap,
                           db>>

\* out_f(res): cache_and_return writes the dump of res, dummy does not
Finish ==
  /\ pc \in {"SinglePage", "PagesFetched"}
  /\ queue = <<>>
  /\ cache' = IF arg.cache
              THEN [state |-> "written", name |-> res.name, tags |-> res.tags]
              ELSE cache
  /\ returned' = [is |-> TRUE, set |-> res]
  /\ pc' = "Done"
  /\ UNCHANGED <<arg, url, call, requests, first, n, pending, others, queue,
                 log, res, error, ta, tb, cmp, heap, db>>

(***************************************************************************)
(* Comparing two Tag values.                                               *)
(***************************************************************************)
CompareTags ==
  /\ ~cmp.done
  /\ cmp' = [done |-> TRUE,
             eq |-> TagEq(ta, tb),
             hash_eq |-> TagHash(ta) = TagHash(tb),
             pair_eq |-> TagEqTuple(ta, <<ta.name, ta.url_token>>),
             triple_eq |-> TagEqTuple(ta, <<ta.type, ta.name, ta.url_token>>)]
  /\ UNCHANGED <<pc, arg, url, call, requests, first, n, pending, others,
                 queue, log, res, returned, error, cache, ta, tb, heap, db>>

Next ==
  \/ Construct
  \/ LoadBegin
  \/ ReadFirstPage
  \/ FetchOthers
  \/ Deliver
  \/ Collect
  \/ MergeOne
  \/ Finish

Spec == Init /\ [][Next]_vars

NextQuery ==
  \/ Construct
  \/ CallPageUrls
  \/ CallStoredName

SpecQuery == InitQuery /\ [][NextQuery]_vars

\* the constructor alone
NextConstruct == Construct

SpecConstruct == InitQuery /\ [][NextConstruct]_vars

NextTag == CompareTags

SpecTag == InitTag /\ [][NextTag]_vars

(***************************************************************************)
(* URLs.override_query called on its own.  arg holds the arguments of the  *)
(* call: the SplitResult, the keyword arguments, whether a sort key is     *)
(* passed, and the two modes; keep_blank_values and strict_parsing are     *)
(* left at their defaults.                                                 *)
(***************************************************************************)
query_type == <<"query", "[", "type", "]">>

OvKeys == {<<"a">>, <<"b">>, page}

\* plain and blank values, the encoded text "y&b=z" and the encoded "1+1"
OvValues ==
  {<<"x">>, <<>>, <<"y", "%", "26", "b", "%", "3D", "z">>,
   <<"1", "%", "2B", "1">>}

OvPairs == {k \o <<"=">> \o v : k \in OvKeys, v \in OvValues}

\* the query strings of at most k pairs
RECURSIVE OvQueries(_)
OvQueries(k) ==
  IF k = 0 THEN {<<>>}
  ELSE With([shorter \in {OvQueries(k - 1)} |->
         shorter \cup OvPairs
         \cup {q \o <<"&">> \o p : q \in shorter \ {<<>>}, p \in OvPairs}])

\* one keyword argument for each weight of the crawler's sort key, given in
\* the reverse of the order of the weights
AllWeightsKwargs ==
  <<Kw(page, <<"2">>), Kw(view_adult, <<"true">>), Kw(<<"c">>, <<"z">>),
    Kw(query_type, <<"t">>), Kw(query_name, <<"n">>),
    Kw(utf8, <<"CHECKMARK">>)>>

OvKwargs ==
  {<<>>,
   <<Kw(<<"a">>, <<"z">>)>>,
   <<KwNone(<<"a">>)>>,
   <<Kw(<<"c">>, <<"z">>)>>,
   <<KwNone(<<"c">>)>>,
   <<Kw(<<"a">>, <<"z">>), KwNone(<<"b">>)>>,
   AllWeightsKwargs,
   InitKwargs(TRUE)}

\* (unquote_mode, quote_mode): the defaults, those of TagSearch.__init__, and
\* a call that leaves the decoding to parse_qsl
OvModes == {<<2, 2>>, <<2, 0>>, <<0, 2>>}

OverrideArg(q, kwargs, sorted, m) ==
  [url_split |-> SplitResult(protocol, domain, tag_search_root, q, <<>>),
   kwargs |-> kwargs, sorted |-> sorted, unquote_mode |-> m[1],
   quote_mode |-> m[2]]

OverrideArgs ==
  {OverrideArg(q, kw, s, m) :
     q \in OvQueries(MaxPairs), kw \in OvKwargs, s \in BOOLEAN, m \in OvModes}

InitOverride ==
  /\ InitCommon
  /\ arg \in OverrideArgs
  /\ cache = AbsentFile
  /\ ta = NoTag
  /\ tb = NoTag
  /\ heap = NoHeap

\* override_query(url_split, unquote_mode=, quote_mode=, query_sort_key_f=,
\* **kwargs): the list as parsed, the list that is compiled back, and the
\* result
CallOverrideQuery ==
  /\ call.op = ""
  /\ \E parsed \in {parse_qsl(UnquoteBy(arg.unquote_mode,
                                        ReplaceTok(arg.url_split.query,
                                                   "&amp;", "&")),
                              TRUE, TRUE)},
        list \in {override_list(arg.url_split, TRUE, TRUE, arg.unquote_mode,
                                arg.sorted, arg.kwargs)},
        r \in {override_query(arg.url_split, TRUE, TRUE, arg.unquote_mode,
                              arg.quote_mode, arg.sorted, arg.kwargs)} :
       call' = [op |-> "override_query", parsed |-> parsed,
                query_list |-> list, result |-> r]
  /\ UNCHANGED <<pc, arg, url, requests, first, n, pending, others, queue,
                 log, res, returned, error, cache, ta, tb, cmp, heap, db>>

NextOverride == CallOverrideQuery

SpecOverride == InitOverride /\ [][NextOverride]_vars

(***************************************************************************)
(* URLs.split called on its own, and called again on the re-joined result. *)
(* A Python value is a record of its type, its truth value and, for a str, *)
(* its text.                                                               *)
(***************************************************************************)
PyStr(s) == [type |-> "str", truthy |-> s # <<>>, s |-> s]

PyValue(type, truthy) == [type |-> type, truthy |-> truthy, s |-> <<>>]

\* None, 0, [], 1 and [1]
NonStrings ==
  {PyValue("NoneType", FALSE), PyValue("int", FALSE), PyValue("list", FALSE),
   PyValue("int", TRUE), PyValue("list", TRUE)}

\* URLs.split on any value: a falsy value becomes '', and the assert on the
\* type raises AssertionError (the spec's InvalidURL)
split_value(v, check_domain, unquote_arg, to_abs) ==
  With([u \in {IF ~v.truthy THEN PyStr(<<>>) ELSE v} |->
    IF u.type # "str" THEN Fail("InvalidURL")
    ELSE split(u.s, check_domain, unquote_arg, to_abs)])

SplitProtocols ==
  {<<>>, protocol_prefix, <<"http", ":", "/", "/">>,
   <<"HTTPS", ":", "/", "/">>, <<"/", "/">>}

SplitWww == {<<>>, <<"www.">>, <<"WWW.">>}

SplitHosts == {domain, <<"ArchiveOfOurOwn.org">>, <<"example.com">>}

\* paths with a character percent-encoded up to MaxDepth times
SplitPaths ==
  {<<>>, <<"/", "tags", "/", "A">>,
   <<"/", "tags", "/", "search", "?", "a", "=", "x">>}
  \cup {<<"/", "tags", "/", "a">> \o Enc(<<c>>, d) \o <<"b">> :
          c \in {"%", "+", "?"}, d \in 0..MaxDepth}

\* the parts a URL text is written from
UrlParts(proto, www, host, path) ==
  [proto |-> proto, www |-> www, host |-> host, path |-> path]

SplitParts ==
  {UrlParts(<<>>, <<>>, <<>>, p) : p \in SplitPaths}
  \cup {UrlParts(pr, w, h, p) :
          pr \in SplitProtocols, w \in SplitWww, h \in SplitHosts,
          p \in SplitPaths}

NoParts == UrlParts(<<>>, <<>>, <<>>, <<>>)

SplitArg(v, parts, check_domain, unquote_arg, to_abs) ==
  [value |-> v, parts |-> parts, check_domain |-> check_domain,
   unquote |-> unquote_arg, to_abs |-> to_abs]

SplitArgs ==
  {SplitArg(PyStr(x.proto \o x.www \o x.host \o x.path), x, c, u, a) :
     x \in SplitParts, c \in BOOLEAN, u \in 0..2, a \in BOOLEAN}
  \cup {SplitArg(v, NoParts, c, u, a) :
          v \in NonStrings, c \in BOOLEAN, u \in 0..2, a \in BOOLEAN}

InitSplit ==
  /\ InitCommon
  /\ arg \in SplitArgs
  /\ cache = AbsentFile
  /\ ta = NoTag
  /\ tb = NoTag
  /\ heap = NoHeap

\* URLs.split(url, check_domain, unquote, to_abs)
CallSplit ==
  /\ call.op = ""
  /\ call' = [op |-> "split",
              result |-> split_value(arg.value, arg.check_domain, arg.unquote,
                                     arg.to_abs)]
  /\ UNCHANGED <<pc, arg, url, requests, first, n, pending, others, queue,
                 log, res, returned, error, cache, ta, tb, cmp, heap, db>>

\* URLs.split, with the same flags, of the text the first result re-joins to
CallSplitAgain ==
  /\ call.op = "split"
  /\ call.result.error = ""
  /\ call' = [op |-> "split_again", result |-> call.result,
              again |-> split_value(PyStr(geturl(call.result.value)),
                                    arg.check_domain, arg.unquote,
                                    arg.to_abs)]
  /\ UNCHANGED <<pc, arg, url, requests, first, n, pending, others, queue,
                 log, res, returned, error, cache, ta, tb, cmp, heap, db>>

NextSplit ==
  \/ CallSplit
  \/ CallSplitAgain

SpecSplit == InitSplit /\ [][NextSplit]_vars

(***************************************************************************)
(* Tag.new_instance with all its arguments, Tag.dumps, and the set objects *)
(* of the reference fields.  The arguments are Python values: name,        *)
(* url_token and usages are records as above, type and canonical are as in *)
(* a Tag, and a reference argument is None, a str, or a set object of the  *)
(* caller, named by its place in the heap.                                 *)
(***************************************************************************)
PyNone == PyValue("NoneType", FALSE)

PyInt(k) == [type |-> "int", truthy |-> k # 0, s |-> <<>>, v |-> k]

RefNone == [kind |-> "None", id |-> 0, s |-> <<>>]

RefSet(id) == [kind |-> "set", id |-> id, s |-> <<>>]

RefStr(s) == [kind |-> "str", id |-> 0, s |-> s]

\* the five reference fields of a Tag, in the order of its fields
Refs(t) == <<t.synonyms, t.parents, t.children, t.subtags, t.metatags>>

\* the Tag t with refs as its reference fields
WithRefs(t, refs) ==
  [t EXCEPT !.synonyms = refs[1], !.parents = refs[2], !.children = refs[3],
            !.subtags = refs[4], !.metatags = refs[5]]

\* a reference argument with the elements it has at the time of the call
Resolve(r, h) ==
  [kind |-> r.kind, id |-> r.id, s |-> r.s,
   items |-> IF r.kind = "set" THEN h[r.id] ELSE {}]

TagArgs(type, name, url_token, canonical, usages, date, refs) ==
  [type |-> type, name |-> name, url_token |-> url_token,
   canonical |-> canonical, usages |-> usages, date |-> date, refs |-> refs]

ResolveArgs(a, h) ==
  [a EXCEPT !.refs = [i \in 1..Len(a.refs) |-> Resolve(a.refs[i], h)]]

\* dt.now() at the time of a call
Now == [set |-> TRUE, t |-> 2]

\* Tag._clean_args._clean_ref: the elements of the set it builds, or the
\* failed assert on an element that is no non-empty str
clean_ref(val) ==
  IF val.kind = "None" \/ (val.kind = "str" /\ val.s = <<>>)
     \/ (val.kind = "set" /\ val.items = {})
  THEN Ok({})
  ELSE IF val.kind = "str" THEN Ok({val.s})
  ELSE IF <<>> \in val.items THEN Fail("InvalidTag")
  ELSE Ok(val.items)

\* Tag._clean_args on the eleven arguments: Ok(the cleaned fields, as a
\* Tag), or Fail("InvalidTag") where one of its asserts fails
clean_args(a) ==
  IF ~(a.name.truthy /\ a.name.type = "str") THEN Fail("InvalidTag")
  ELSE With([tok \in {clean_url_token(a.url_token.s, a.name.s)} |->
    IF tok.error # "" THEN tok
    ELSE IF "/" \in Range(tok.value) THEN Fail("InvalidTag")
    ELSE IF a.usages.type \notin {"NoneType", "int"} THEN Fail("InvalidTag")
    ELSE With([usages \in {IF a.usages.type = "NoneType" THEN -1
                           ELSE a.usages.v} |->
         With([refs \in {[i \in 1..Len(a.refs) |-> clean_ref(a.refs[i])]} |->
           IF \E i \in 1..Len(refs) : refs[i].error # ""
           THEN Fail("InvalidTag")
           ELSE Ok(Tag(a.type, a.name.s, tok.value, a.canonical, usages,
                       IF ~a.date.set /\ usages > -1 THEN Now ELSE a.date,
                       [i \in 1..Len(refs) |-> refs[i].value]))])])])

\* Tag.new_instance(type, name, url_token, canonical, usages, date,
\* synonyms, parents, children, subtags, metatags): the cleaned fields that
\* differ from the defaults are passed to the constructor, the others are
\* left to it
new_instance_of(a) == clean_args(a)

\* a reference field that holds the caller's set object
RefObjectOfCaller(val, fresh) == IF val.kind = "set" THEN val.id ELSE fresh

\* the set object a reference field holds: default_f() and default_f(items)
\* of _clean_ref build a new set
RefObject(val, fresh) == fresh

\* _TagDumpConfig.dump_id, in the order of the fields of a Tag
dump_id ==
  <<"-Tp:", "-Tag:", "-URL:", "-Canon:", "-Use:", "-Dt:", "\t=>Syn:",
    "\t=>Parent:", "\t=>Child:", "\t=>Sub:", "\t=>Meta:">>

\* the text dumps() writes for a type: '' for None and '', dump_map.type
\* for a TagType, the text itself for another str
dump_type(type) ==
  CASE type = None -> <<>>
    [] type = "" -> <<>>
    [] type = "TagType.Fandom" -> <<"Fandom">>
    [] type = "TagType.Character" -> <<"Character">>
    [] type = "TagType.Relationship" -> <<"Relationship">>
    [] type = "TagType.Freeform" -> <<"Freeform">>
    [] type = "TagType.Unsorted" -> <<"UnsortedTag">>
    [] OTHER -> <<type>>

\* _TagDumpConfig.dump_map.canonical
dump_canonical(canonical) ==
  CASE canonical = None -> <<>>
    [] canonical = "True" -> <<"+">>
    [] canonical = "False" -> <<"-">>

\* Tag.date_str of a date in UTC
date_str(date) ==
  IF ~date.set THEN <<>> ELSE <<ToString(date.t), "|", "UTC">>

\* the names that occur in reference sets, in the order of sorted()
NameOrder == <<<<"A">>, <<"B">>, <<"x">>>>

\* dump_ref: '' for an empty set, else the JSON list of the sorted elements
dump_ref(ref_set) ==
  IF ref_set = {} THEN <<>>
  ELSE With([sorted_items \in {SelectSeq(NameOrder,
                                         LAMBDA x : x \in ref_set)} |->
         <<"[">>
         \o Concat([i \in 1..Len(sorted_items) |->
                      (IF i > 1 THEN <<",", " ">> ELSE <<>>)
                      \o <<"\"">> \o sorted_items[i] \o <<"\"">>])
         \o <<"]">>])

\* the arguments dumps() hands to _clean_args: the fields of the Tag
StoredArgs(t) ==
  TagArgs(t.type, PyStr(t.name), PyStr(t.url_token), t.canonical,
          PyInt(t.usages), t.date,
          [i \in 1..Len(Refs(t)) |->
             [kind |-> "set", id |-> 0, s |-> <<>>, items |-> Refs(t)[i]]])

\* Tag._reorder_fields_to_dump: name and url_token, then the other fields
\* whose text is not empty
reorder_fields_to_dump(items) ==
  <<items[2], items[3]>>
  \o SelectSeq(<<items[1]>> \o Drop(items, 3), LAMBDA x : x.val # <<>>)

\* Tag.dumps(): Ok(the lines), or the failure of _clean_args
dumps(t) ==
  With([c \in {clean_args(StoredArgs(t))} |->
    IF c.error # "" THEN c
    ELSE With([vals \in {<<dump_type(c.value.type),
                           c.value.name,
                           IF c.value.url_token = c.value.name
                           THEN token_match_name_indicator
                           ELSE c.value.url_token,
                           dump_canonical(c.value.canonical),
                           IF c.value.usages < 0 THEN <<>>
                           ELSE <<ToString(c.value.usages)>>,
                           date_str(c.value.date)>>
                         \o [i \in 1..Len(Refs(c.value)) |->
                               dump_ref(Refs(c.value)[i])]} |->
         With([pairs \in {reorder_fields_to_dump(
                            [i \in 1..Len(vals) |->
                               [id |-> dump_id[i], val |-> vals[i]]])} |->
           Ok([i \in 1..Len(pairs) |-> <<pairs[i].id>> \o pairs[i].val])])])])

(***************************************************************************)
(* Two Tags built by new_instance from arguments of one caller, a dump of  *)
(* the first, and an element added to one of the sets.  The heap starts    *)
(* with the one set object of the caller.                                  *)
(***************************************************************************)
NoRefArgs == <<RefNone, RefNone, RefNone, RefNone, RefNone>>

\* the caller's set, given for two fields, for one beside a str, or not
RefArgs ==
  {NoRefArgs,
   <<RefSet(1), RefSet(1), RefNone, RefNone, RefNone>>,
   <<RefStr(<<"A">>), RefNone, RefNone, RefNone, RefSet(1)>>}

CallerSets == {{}, {<<"A">>}, {<<"B">>, <<"A">>}}

\* names: plain, empty, with a "/" inside, in front or behind, a tag path,
\* and values that are no str
TagNames ==
  {PyStr(<<"A">>), PyStr(<<>>), PyStr(<<"a", "/", "b">>),
   PyStr(<<"/", "A">>), PyStr(<<"A", "/">>),
   PyStr(<<"/", "tags", "/", "A", "/", "works">>), PyNone, PyInt(5)}

\* tokens: absolute and rooted tag URLs, with trailing segments and with
\* encoded characters, bare tokens with and without slashes, the
\* same-as-name indicator, and the empty text
TagTokens ==
  {protocol_prefix \o domain \o <<"/", "tags", "/", "A", "%", "20", "B">>,
   protocol_prefix \o domain_www \o <<"/", "tags", "/", "A", "+", "B">>,
   <<"/", "tags", "/", "A">>,
   <<"/", "tags", "/", "A", "/", "works">>,
   <<"/", "tags", "/", "A", "%", "2F", "B", "/">>,
   <<"A">>,
   <<"/", "A", "/">>,
   <<"a", "/", "b">>,
   <<"other.org", "/", "tags", "/", "A">>,
   token_match_name_indicator,
   <<>>}

UsagesArgs == {PyNone, PyInt(-1), PyInt(0), PyInt(3), PyStr(<<"3">>)}

DateArgs == {NoDate, [set |-> TRUE, t |-> 1]}

\* arguments that vary the name and the token
TokenForms ==
  {TagArgs(None, nm, PyStr(tok), "False", PyInt(-1), NoDate, NoRefArgs) :
     nm \in TagNames, tok \in TagTokens}

\* arguments that vary the other fields
FieldForms ==
  {TagArgs(ty, PyStr(<<"A">>), PyStr(tok), ca, us, da, refs) :
     ty \in {None, "TagType.Character", "Custom", ""},
     tok \in {token_match_name_indicator, <<"A", "%", "20", "B">>},
     ca \in {None, "True", "False"}, us \in UsagesArgs, da \in DateArgs,
     refs \in RefArgs}

\* the second Tag of the caller: another name, the same reference arguments
SecondArgs(a) ==
  TagArgs(None, PyStr(<<"B">>), PyStr(token_match_name_indicator), "False",
          PyInt(-1), NoDate, a.refs)

InitNewTag ==
  /\ InitCommon
  /\ arg \in TokenForms \cup FieldForms
  /\ cache = AbsentFile
  /\ ta = NoTag
  /\ tb = NoTag
  /\ heap \in {<<c>> : c \in CallerSets}

\* the Tag with its reference fields holding the set objects
Allocated(t, a, h) ==
  WithRefs(t, [i \in 1..Len(a.refs) |-> RefObject(a.refs[i], Len(h) + i)])

\* the Tag with the elements of its sets in place of the objects
Deref(t, h) == WithRefs(t, [i \in 1..Len(Refs(t)) |-> h[Refs(t)[i]]])

\* ta = Tag.new_instance(...): the Tag, or the failed assert
NewFirst ==
  /\ pc = "New"
  /\ \E t \in {new_instance_of(ResolveArgs(arg, heap))} :
       IF t.error # ""
       THEN /\ pc' = "Rejected"
            /\ error' = t.error
            /\ UNCHANGED <<ta, heap>>
       ELSE /\ pc' = "First"
            /\ ta' = Allocated(t.value, arg, heap)
            /\ heap' = heap \o Refs(t.value)
            /\ UNCHANGED error
  /\ UNCHANGED <<arg, url, call, requests, first, n, pending, others, queue,
                 log, res, returned, cache, tb, cmp, db>>

\* tb = Tag.new_instance(...) with the same reference arguments
NewSecond ==
  /\ pc = "First"
  /\ call.op = ""
  /\ \E t \in {new_instance_of(ResolveArgs(SecondArgs(arg), heap))} :
       IF t.error # ""
       THEN /\ pc' = "Rejected"
            /\ error' = t.error
            /\ UNCHANGED <<tb, heap>>
       ELSE /\ pc' = "Second"
            /\ tb' = Allocated(t.value, SecondArgs(arg), heap)
            /\ heap' = heap \o Refs(t.value)
            /\ UNCHANGED error
  /\ UNCHANGED <<arg, url, call, requests, first, n, pending, others, queue,
                 log, res, returned, cache, ta, cmp, db>>

\* ta.dumps()
CallDumps ==
  /\ pc = "First"
  /\ call.op = ""
  /\ call' = [op |-> "dumps", result |-> dumps(Deref(ta, heap))]
  /\ UNCHANGED <<pc, arg, url, requests, first, n, pending, others, queue,
                 log, res, returned, error, cache, ta, tb, cmp, heap, db>>

\* some_set.add('x') on the caller's set or on a reference field of the
\* i-th Tag
AddToRef ==
  /\ pc = "Second"
  /\ \E id \in {1} \cup Range(Refs(ta)) \cup Range(Refs(tb)) :
       heap' = [heap EXCEPT ![id] = @ \cup {<<"x">>}]
  /\ pc' = "Added"
  /\ UNCHANGED <<arg, url, call, requests, first, n, pending, others, queue,
                 log, res, returned, error, cache, ta, tb, cmp, db>>

NextNewTag ==
  \/ NewFirst
  \/ NewSecond
  \/ CallDumps
  \/ AddToRef

SpecNewTag == InitNewTag /\ [][NextNewTag]_vars

(***************************************************************************)
(* Tag.sorting_key and TagSet.dumps.  A datetime is naive unless it has    *)
(* the field aware; the texts of a key are ordered as Python orders str.   *)
(***************************************************************************)
MaxTags == 3

\* a datetime with a tzinfo, as Tag.date_from_str returns it
AwareDate(t) == [set |-> TRUE, t |-> t, aware |-> TRUE]

IsAware(date) == "aware" \in DOMAIN date

\* _TagDumpConfig.zero_day: a naive datetime
zero_day == [set |-> TRUE, t |-> 0]

\* sorting_key.type_string: '' for None, a str as it is, value_name for a
\* TagType
type_string(type) ==
  CASE type = None -> <<>>
    [] type = "" -> <<>>
    [] type = "TagType.Fandom" -> <<"0_Fandom">>
    [] type = "TagType.Character" -> <<"1_Character">>
    [] type = "TagType.Relationship" -> <<"2_Relationship">>
    [] type = "TagType.Freeform" -> <<"3_Freeform">>
    [] type = "TagType.Unsorted" -> <<"7_Unsorted">>
    [] OTHER -> <<type>>

\* sorting_key.date_key: zero_day - date, a TypeError between a naive and
\* an aware datetime
date_key(date) ==
  With([d \in {IF ~date.set THEN zero_day ELSE date} |->
    IF IsAware(d) # IsAware(zero_day) THEN Fail("TypeError")
    ELSE Ok(zero_day.t - d.t)])

\* Tag.sorting_key: Ok(the tuple), or the TypeError of date_key
sorting_key(t) ==
  With([dk \in {date_key(t.date)} |->
    IF dk.error # "" THEN dk
    ELSE Ok(<<t.canonical # "True", -t.usages, type_string(t.type), t.name,
              t.url_token, dk.value>>)])

\* the texts that occur in keys, in the order of str.__lt__
SortedTexts ==
  <<<<>>, <<"0_Fandom">>, <<"1_Character">>, <<"2_Relationship">>,
    <<"3_Freeform">>, <<"7_Unsorted">>, <<"A">>, <<"B">>, <<"Custom">>>>

TextRank(s) == CHOOSE i \in 1..Len(SortedTexts) : SortedTexts[i] = s

\* x < y for the i-th elements of two keys: the bool and the numbers as
\* numbers, a str by its text
ElemLess(i, x, y) ==
  IF i = 1 THEN ~x /\ y
  ELSE IF i \in {2, 6} THEN x < y
  ELSE TextRank(x) < TextRank(y)

\* tuple.__lt__: decided at the first place where the tuples differ
KeyLess(ka, kb) ==
  \E i \in 1..Len(ka) :
    /\ \A j \in 1..(i - 1) : ka[j] = kb[j]
    /\ ka[i] # kb[i]
    /\ ElemLess(i, ka[i], kb[i])

\* one step of sorted(): x goes behind the elements that are not greater
InsertByKey(sorted_tags, x) ==
  With([k \in {Cardinality({i \in 1..Len(sorted_tags) :
                  ~KeyLess(sorting_key(x).value,
                           sorting_key(sorted_tags[i]).value)})} |->
    SubSeq(sorted_tags, 1, k) \o <<x>> \o Drop(sorted_tags, k)])

\* sorted(self, key=sort_key) on the set as it iterates: a stable sort
RECURSIVE SortedTags(_)
SortedTags(order) ==
  IF order = <<>> THEN <<>>
  ELSE InsertByKey(SortedTags(SubSeq(order, 1, Len(order) - 1)),
                   order[Len(order)])

\* the lines a consumer of the generator gets: those of the first tag, then
\* for each other tag the separator line and its lines
JoinDumps(sorted_tags, separator_line) ==
  Concat([i \in 1..Len(sorted_tags) |->
            (IF i > 1 THEN <<separator_line>> ELSE <<>>)
            \o dumps(sorted_tags[i]).value])

\* TagSet.dumps(separator_line), read to its end, on a set that iterates in
\* the given order: Ok(the lines), or the error raised by sorting_key or by
\* Tag.dumps
tagset_dumps(order, separator_line) ==
  IF \E i \in 1..Len(order) : sorting_key(order[i]).error # ""
  THEN Fail("TypeError")
  ELSE IF \E i \in 1..Len(order) : dumps(order[i]).error # ""
  THEN Fail("InvalidTag")
  ELSE Ok(JoinDumps(SortedTags(order), separator_line))

\* the orders in which a set of tags can iterate
Orders(tags) ==
  {o \in [1..Cardinality(tags) -> tags] : Range(o) = tags}

(***************************************************************************)
(* A TagSet filled by update() with Tags from new_instance, then dumped.   *)
(***************************************************************************)
SetTag(type, name, url_token, canonical, usages, date) ==
  TagArgs(type, PyStr(name), PyStr(url_token), canonical, usages, date,
          NoRefArgs)

\* tags of the crawl and of a loaded cache: canonical or not, with and
\* without usages, typed, dated by now, by a naive and by an aware datetime,
\* two of one identity, and a name that is refused
SetTags ==
  {SetTag(None, <<"A">>, <<"/">>, "True", PyNone, NoDate),
   SetTag("TagType.Fandom", <<"B">>, <<"/">>, "False", PyInt(9),
          [set |-> TRUE, t |-> 1]),
   SetTag("Custom", <<"B">>, <<"A">>, None, PyInt(9), NoDate),
   SetTag("TagType.Character", <<"A">>, <<"/">>, "False", PyInt(3), NoDate),
   SetTag(None, <<"A">>, <<"B">>, "True", PyInt(3), AwareDate(1)),
   SetTag(None, <<"B">>, <<"/">>, "False", PyNone, NoDate),
   SetTag(None, <<"a", "/", "b">>, <<"/">>, "False", PyNone, NoDate)}

SeparatorLines == {<<>>, <<"---">>}

RECURSIVE TagLists(_)
TagLists(k) ==
  IF k = 0 THEN {<<>>}
  ELSE With([shorter \in {TagLists(k - 1)} |->
         shorter \cup {Append(l, t) : l \in shorter, t \in SetTags}])

InitTagSet ==
  /\ InitCommon
  /\ arg \in [tags : TagLists(MaxTags), separator_line : SeparatorLines]
  /\ cache = AbsentFile
  /\ ta = NoTag
  /\ tb = NoTag
  /\ heap = NoHeap

\* res.update((Tag.new_instance(...), )) for the next tag of the caller
UpdateSet ==
  /\ pc = "New"
  /\ n < Len(arg.tags)
  /\ \E t \in {new_instance_of(ResolveArgs(arg.tags[n + 1], heap))} :
       IF t.error # ""
       THEN /\ pc' = "Rejected"
            /\ error' = t.error
            /\ UNCHANGED <<n, res>>
       ELSE /\ n' = n + 1
            /\ res' = TagSetAdd(res, t.value)
            /\ UNCHANGED <<pc, error>>
  /\ UNCHANGED <<arg, url, call, requests, first, pending, others, queue,
                 log, returned, cache, ta, tb, cmp, heap, db>>

\* list(res.dumps(separator_line)), the set iterating in some order
CallSetDumps ==
  /\ pc = "New"
  /\ n = Len(arg.tags)
  /\ \E order \in Orders(res.tags) :
       call' = [op |-> "set_dumps", order |-> order,
                keys |-> [i \in 1..Len(order) |-> sorting_key(order[i])],
                result |-> tagset_dumps(order, arg.separator_line)]
  /\ pc' = "Dumped"
  /\ UNCHANGED <<arg, url, requests, first, n, pending, others, queue, log,
                 res, returned, error, cache, ta, tb, cmp, heap, db>>

NextTagSet ==
  \/ UpdateSet
  \/ CallSetDumps

SpecTagSet == InitTagSet /\ [][NextTagSet]_vars

(***************************************************************************)
(* TagSearch.__detect_pages_number on the pagers a page may show           *)
(***************************************************************************)
MaxItems == 3

\* the gap of a pager: an item that is no number
GapLi == [class |-> {"gap"}, text |-> <<"...">>]

\* the next item of the last page: marked next and disabled
DisabledNextLi == [class |-> {"next", "disabled"}, text |-> <<"Next">>]

PagerItems == {PagerLi(1), PagerLi(2), NextLi, DisabledNextLi, GapLi}

RECURSIVE PagersOf(_)
PagersOf(k) ==
  IF k = 0 THEN {<<>>}
  ELSE With([shorter \in {PagersOf(k - 1)} |->
         shorter \cup {Append(p, li) : p \in shorter, li \in PagerItems}])

InitPager ==
  /\ InitCommon
  /\ arg \in [pager_ol : PagersOf(MaxItems)]
  /\ cache = AbsentFile
  /\ ta = NoTag
  /\ tb = NoTag
  /\ heap = NoHeap

\* cls.__detect_pages_number(pager_ol)
CallDetectPagesNumber ==
  /\ call.op = ""
  /\ call' = [op |-> "detect_pages_number",
              result |-> detect_pages_number(arg.pager_ol)]
  /\ UNCHANGED <<pc, arg, url, requests, first, n, pending, others, queue,
                 log, res, returned, error, cache, ta, tb, cmp, heap, db>>

NextPager == CallDetectPagesNumber

SpecPager == InitPager /\ [][NextPager]_vars

(***************************************************************************)
(* The cache files of two crawls.  cache_and_return names the file after   *)
(* the TagSet; the log holds the files written, in order.                  *)
(***************************************************************************)
MaxChars == 2

\* Paths.reserved_chars
reserved_chars == {"<", ">", ":", "\"", "/", "|", "\\", "?", "*"}

\* Paths.reserved_placeholder
reserved_placeholder == <<>>

\* cache_and_return: the name of the file, each reserved character of the
\* TagSet's name replaced by the placeholder, '.txt' appended
cache_file_name(name) ==
  Concat([i \in 1..Len(name) |->
            IF name[i] \in reserved_chars THEN reserved_placeholder
            ELSE <<name[i]>>])
  \o <<".txt">>

\* the values of the searches: texts with and without reserved characters
RECURSIVE CacheValues(_)
CacheValues(k) ==
  IF k = 0 THEN {<<>>}
  ELSE With([shorter \in {CacheValues(k - 1)} |->
         shorter \cup {Append(v, c) : v \in shorter, c \in {"x", "/", "*"}}])

CacheQueries ==
  {<<"?">> \o query_name \o <<"=">> \o v : v \in CacheValues(MaxChars)}

InitCache ==
  /\ InitCommon
  /\ arg \in [queries : CacheQueries \X CacheQueries]
  /\ cache = AbsentFile
  /\ ta = NoTag
  /\ tb = NoTag
  /\ heap = NoHeap

\* TagSearch(query).load_tags(cache=True) for the next query of the caller,
\* on a search that has one page without tags: the file is written
LoadAndCache ==
  /\ pc = "New"
  /\ n < Len(arg.queries)
  /\ \E u \in {TagSearchInit(arg.queries[n + 1], TRUE)} :
       IF u.error # "" THEN Raise(u.error)
       ELSE \E nm \in {StoredName(u.value)} :
              IF nm.error # "" THEN Raise(nm.error)
              ELSE /\ log' = Append(log, [name |-> nm.value,
                                          file |-> cache_file_name(nm.value),
                                          lines |-> <<>>])
                   /\ n' = n + 1
                   /\ UNCHANGED <<pc, arg, url, call, requests, first,
                                  pending, others, queue, res, returned,
                                  error, cache, ta, tb, cmp, heap, db>>

NextCache == LoadAndCache

SpecCache == InitCache /\ [][NextCache]_vars

(***************************************************************************)
(* class StoriesDatabase (combine_stories/__init__.py): a dict from the    *)
(* name of a story to the list of its variants, a variant being a list of  *)
(* lines.  A line is a sequence of tokens: words, one blank, the parts "&" *)
(* and "amp;", "nbsp;" of an HTML character code, a run of dashes "---",   *)
(* and the start "<link rel=" of scraped code.                             *)
(***************************************************************************)
MaxLines == 5

\* str.strip() of a line
StripLine(line) == Strip(line, " ")

\* [-\s]* at both ends of a text
RECURSIVE StripDashes(_)
StripDashes(s) ==
  IF s = <<>> THEN s
  ELSE IF Head(s) \in {" ", "---"} THEN StripDashes(Tail(s))
  ELSE IF s[Len(s)] \in {" ", "---"}
  THEN StripDashes(SubSeq(s, 1, Len(s) - 1))
  ELSE s

\* story_name_pattern.match(line).group(1) of a stripped line: dashes, a
\* name that starts with neither a blank nor a dash, dashes
story_name_match(line) ==
  IF Len(line) >= 3 /\ Head(line) = "---" /\ line[Len(line)] = "---"
     /\ StripDashes(line) # <<>>
  THEN Ok(StripDashes(line))
  ELSE Fail("NoMatch")

unnamed_story_key == <<>>

\* append_new_empty_variant(story_name)
append_new_empty_variant(stories, story_name) ==
  IF story_name \in DOMAIN stories
  THEN [stories EXCEPT ![story_name] = Append(@, <<>>)]
  ELSE stories @@ (story_name :> <<<<>>>>)

\* parse_text.remove_trailing_empty_lines on the variant filled last
remove_trailing_empty_lines(st) ==
  IF ~st.in_variant THEN st
  ELSE [st EXCEPT !.stories[st.cur][Len(st.stories[st.cur])] =
                     RStrip(@, <<>>)]

\* the body of the loop of parse_text for one line; cur_story_variant is
\* the last variant of the story st.cur
ParseLine(st, raw_line) ==
  With([line \in {StripLine(raw_line)} |->
  With([name_match \in {story_name_match(line)} |->
    IF name_match.error = "" \/ st.not_in_story_yet
    THEN With([story_name \in {IF name_match.error = "" THEN name_match.value
                               ELSE unnamed_story_key} |->
         With([closed \in {remove_trailing_empty_lines(st)} |->
           [stories |-> append_new_empty_variant(closed.stories, story_name),
            cur |-> story_name,
            in_variant |-> TRUE,
            not_in_story_yet |-> st.not_in_story_yet /\ story_name # <<>>,
            no_lines_in_story_yet |-> TRUE,
            n_vars_total |-> st.n_vars_total + 1]])])
    ELSE IF st.no_lines_in_story_yet /\ line = <<>> THEN st
    ELSE [st EXCEPT !.no_lines_in_story_yet = FALSE,
                    !.stories[st.cur][Len(st.stories[st.cur])] =
                       Append(@, line)]])])

RECURSIVE ParseLines(_, _)
ParseLines(st, text_lines) ==
  IF text_lines = <<>> THEN st
  ELSE ParseLines(ParseLine(st, Head(text_lines)), Tail(text_lines))

\* StoriesDatabase.parse_text(text_lines): the database and the count
parse_text(stories, text_lines) ==
  With([st \in {remove_trailing_empty_lines(
                  ParseLines([stories |-> stories, cur |-> <<>>,
                              in_variant |-> FALSE,
                              not_in_story_yet |-> TRUE,
                              no_lines_in_story_yet |-> TRUE,
                              n_vars_total |-> 0], text_lines))} |->
    [stories |-> st.stories, n_vars_total |-> st.n_vars_total]])

\* html_chars_map, the codes of the tokens: '&amp;' and '&nbsp;'
html_chars_map ==
  <<[code |-> <<"&", "amp;">>, out |-> <<"&">>],
    [code |-> <<"&", "nbsp;">>, out |-> <<" ">>]>>

\* line.replace(char_code, out_char)
RECURSIVE ReplaceCode(_, _, _)
ReplaceCode(line, code, out) ==
  IF Len(line) < 2 THEN line
  ELSE IF SubSeq(line, 1, 2) = code
  THEN out \o ReplaceCode(Drop(line, 2), code, out)
  ELSE <<Head(line)>> \o ReplaceCode(Tail(line), code, out)

\* cleanup_single_line with the decorator: strip, then each replacement of
\* html_chars_map in its order
cleanup_single_line(line) ==
  ReplaceCode(ReplaceCode(StripLine(line), html_chars_map[1].code,
                          html_chars_map[1].out),
              html_chars_map[2].code, html_chars_map[2].out)

\* story_id_cleanup on one line; of its replacements the tokens meet the
\* last one, a run of blanks to one blank
RECURSIVE story_id_cleanup(_)
story_id_cleanup(line) ==
  IF Len(line) < 2 THEN line
  ELSE IF line[1] = " " /\ line[2] = " " THEN story_id_cleanup(Tail(line))
  ELSE <<Head(line)>> \o story_id_cleanup(Tail(line))

\* cleanup_stories.story_identifier_key: the cleaned lines that are not ''
story_identifier_key(story_variant) ==
  SelectSeq([i \in 1..Len(story_variant) |->
               story_id_cleanup(story_variant[i])],
            LAMBDA line : line # <<>>)

\* is_code_story: a line starts with '<link rel='
is_code_story(story) ==
  \E i \in 1..Len(story) :
    LStrip(story[i], " ") # <<>> /\ Head(LStrip(story[i], " ")) = "<link rel="

\* the variants cleanup_stories keeps: the first of each key, without the
\* empty key and the code
UniqueVariants(clean) ==
  {i \in 1..Len(clean) :
     /\ \A j \in 1..(i - 1) :
          story_identifier_key(clean[j]) # story_identifier_key(clean[i])
     /\ story_identifier_key(clean[i]) # <<>>
     /\ ~is_code_story(clean[i])}

\* the body of the first loop of cleanup_stories for one story: the list is
\* left as it is when no variant goes, else it gets the cleaned lines of
\* the variants kept
CleanVariants(story_variants) ==
  With([clean \in {[i \in 1..Len(story_variants) |->
                     [k \in 1..Len(story_variants[i]) |->
                        cleanup_single_line(story_variants[i][k])]]} |->
  With([unique \in {UniqueVariants(clean)} |->
    IF Len(story_variants) = Cardinality(unique) THEN story_variants
    ELSE With([kept \in {SelectSeq([i \in 1..Len(clean) |-> i],
                                   LAMBDA i : i \in unique)} |->
           [k \in 1..Len(kept) |-> clean[kept[k]]]])])])

\* the second loop: a story goes under its cleaned name (the names of the
\* stories here hold nothing to clean), and a story without variants goes
cleanup_stories(stories) ==
  With([cleaned \in {[nm \in DOMAIN stories |->
                       CleanVariants(stories[nm])]} |->
    [nm \in {cleanup_single_line(k) : k \in
               {k \in DOMAIN cleaned : cleaned[k] # <<>>}} |->
       cleaned[CHOOSE k \in DOMAIN cleaned :
                 cleanup_single_line(k) = nm /\ cleaned[k] # <<>>]]])

(***************************************************************************)
(* A text is parsed into an empty database, which is then cleaned.         *)
(***************************************************************************)
\* a title, a plain line, an empty line, a line with blanks around it and
\* HTML codes in it, and a line of code
StoryLines ==
  {<<"---", " ", "A", " ", "---">>,
   <<"x">>,
   <<>>,
   <<" ", "&", "nbsp;", "x", "&", "amp;", " ">>,
   <<"<link rel=", "x">>}

RECURSIVE Texts(_)
Texts(k) ==
  IF k = 0 THEN {<<>>}
  ELSE With([shorter \in {Texts(k - 1)} |->
         shorter \cup {Append(t, l) : t \in shorter, l \in StoryLines}])

InitStories ==
  /\ InitCommon
  /\ arg \in [text_lines : Texts(MaxLines)]
  /\ cache = AbsentFile
  /\ ta = NoTag
  /\ tb = NoTag
  /\ heap = NoHeap

\* db.parse_text(text_lines)
ParseText ==
  /\ pc = "New"
  /\ \E r \in {parse_text(db, arg.text_lines)} :
       /\ db' = r.stories
       /\ call' = [op |-> "parse_text", result |-> Ok(r.n_vars_total),
                   before |-> db]
  /\ pc' = "Parsed"
  /\ UNCHANGED <<arg, url, requests, first, n, pending, others, queue, log,
                 res, returned, error, cache, ta, tb, cmp, heap>>

\* db.cleanup_stories()
CleanupStories ==
  /\ pc = "Parsed"
  /\ db' = cleanup_stories(db)
  /\ call' = [op |-> "cleanup_stories", result |-> Ok(0), before |-> db]
  /\ pc' = "Cleaned"
  /\ UNCHANGED <<arg, url, requests, first, n, pending, others, queue, log,
                 res, returned, error, cache, ta, tb, cmp, heap>>

NextStories ==
  \/ ParseText
  \/ CleanupStories

SpecStories == InitStories /\ [][NextStories]_vars

(***************************************************************************)
(* Properties.                                                             *)
(***************************************************************************)
SameIdentity(a, b) == a.name = b.name /\ a.url_token = b.url_token

Terminal == pc \in {"Done", "Failed"}

\* the pairs of a query string as a server reads them
RawPairs(qs) ==
  IF qs = <<>> THEN <<>>
  ELSE With([fields \in {SplitOn(qs, "&")} |->
         [i \in 1..Len(fields) |->
            With([nv \in {SplitOnce(fields[i], "=")} |->
              [k |-> unquote_plus(nv[1]),
               v |-> IF Len(nv) = 2 THEN unquote_plus(nv[2]) ELSE <<>>]])]])

\* the values of the page parameters of a URL, in order
PageParams(u) ==
  With([ps \in {SelectSeq(RawPairs(urlsplit(u).query),
                          LAMBDA p : p.k = page)} |->
    [i \in 1..Len(ps) |-> ps[i].v]])

\* C1: two Tags are equal exactly when their name and url_token are equal,
\* whatever their other fields are, and equal Tags have the same hash; the
\* tuple (name, url_token) is equal to the Tag and the tuple
\* (type, name, url_token) is not.
C1_TagIdentity ==
  cmp.done =>
    /\ cmp.eq <=> (ta.name = tb.name /\ ta.url_token = tb.url_token)
    /\ cmp.eq => cmp.hash_eq
    /\ cmp.pair_eq
    /\ ~cmp.triple_eq

\* C1: two Tags of the same name and url_token that differ in every other
\* field have been compared.
C1_Witness ==
  /\ cmp.done
  /\ cmp.eq
  /\ ta.type # tb.type
  /\ ta.canonical # tb.canonical
  /\ ta.usages # tb.usages
  /\ ta.date # tb.date
  /\ ta.synonyms # tb.synonyms

\* C2: every tag of the TagSet is the first one of its identity that was
\* merged, with the fields it came with, and merging a tag whose identity a
\* member already has leaves the TagSet as it was.
C2_MergeFirstWriterWins ==
  /\ [](\A m \in res.tags :
          \E i \in 1..Len(log) :
            /\ log[i] = m
            /\ \A j \in 1..(i - 1) : ~SameIdentity(log[j], m))
  /\ [][(/\ Len(log') = Len(log) + 1
         /\ \E m \in res.tags : SameIdentity(m, log'[Len(log')]))
        => res' = res]_vars

\* C2: a tag has been merged after another of the same identity and other
\* fields, and the TagSet holds the first of the two only.
C2_Witness ==
  /\ Len(log) = 2
  /\ SameIdentity(log[1], log[2])
  /\ log[1].type # log[2].type
  /\ log[1].canonical # log[2].canonical
  /\ res.tags = {log[1]}

\* C3: once the pager of page 1 has given n > 1 and the other pages are
\* requested, the requests are the first page and then one URL for each of
\* the pages 2..n, in order, the URL of page k asking for page k and nothing
\* else; and when one of the responses to them has a status other than 200,
\* load_tags() does not get past the status check: it fails and returns
\* nothing.
C3_PagesRequested ==
  /\ pc \in {"Fetching", "PagesFetched"} \/ (Terminal /\ Len(requests) > 1)
       => /\ n > 1
          /\ Len(requests) = n
          /\ PageParams(requests[1]) = <<>>
          /\ \A k \in 2..n :
               /\ PageParams(requests[k]) # <<>>
               /\ Range(PageParams(requests[k])) = {<<ToString(k)>>}
  /\ (\E i \in 1..Len(others) : others[i].code # 200)
       => /\ pc \in {"Fetching", "Failed"}
          /\ pc = "Failed" => error = "UpstreamError"
          /\ ~returned.is
          /\ cache = arg.file

\* C3: a crawl of MaxPages pages has failed on the status of one of the
\* other pages.
C3_Witness ==
  /\ pc = "Failed"
  /\ n = MaxPages
  /\ Len(requests) = MaxPages
  /\ Len(others) = MaxPages - 1
  /\ \E i \in 1..Len(others) : others[i].code = 200
  /\ \E i \in 1..Len(others) : others[i].code # 200

\* every entry of a tag list can be built
BuildsAll(lis) == \A i \in 1..Len(lis) : build_from_li(lis[i]).error = ""

\* the tags of the entries of a tag list that can be built
BuiltTags(lis) ==
  With([ok \in {SelectSeq([i \in 1..Len(lis) |-> build_from_li(lis[i])],
                          LAMBDA b : b.error = "")} |->
    [i \in 1..Len(ok) |-> ok[i].value]])

PairwiseDistinct(tags) ==
  \A i, j \in 1..Len(tags) : i # j => ~SameIdentity(tags[i], tags[j])

\* C4: when the first page has no pager and one tag list whose k entries are
\* tags of pairwise distinct identity, load_tags() does not fail, fetches
\* nothing but the first page, and returns exactly those k tags.
C4_SinglePage ==
  (/\ pc \notin {"New", "NoObject", "Initialized"}
   /\ Len(requests) > 0
   /\ first.doc.pagers = <<>>
   /\ Len(first.doc.lists) = 1
   /\ BuildsAll(first.doc.lists[1])
   /\ PairwiseDistinct(BuiltTags(first.doc.lists[1])))
    => /\ pc \in {"FirstPageFetched", "SinglePage", "Done"}
       /\ Len(requests) = 1
       /\ others = <<>>
       /\ pc = "Done" =>
            /\ returned.is
            /\ returned.set.tags = Range(BuiltTags(first.doc.lists[1]))
            /\ Cardinality(returned.set.tags) = Len(first.doc.lists[1])

\* C4: a page without pager and with two tags of distinct identity has been
\* loaded.
C4_Witness ==
  /\ pc = "Done"
  /\ first.code = 200
  /\ first.doc.pagers = <<>>
  /\ Len(first.doc.lists) = 1
  /\ Len(first.doc.lists[1]) = 2
  /\ Cardinality(returned.set.tags) = 2
  /\ Len(requests) = 1

\* C5: when the fetch of a page of the crawl, the first one included, has
\* reported a status other than 200, load_tags() ends in UpstreamError, with
\* no tag parsed and nothing returned.
C5_AnyNon200Fails ==
  (/\ Terminal
   /\ \/ (Len(requests) > 0 /\ first.code # 200)
      \/ \E i \in 1..Len(others) : others[i].code # 200)
    => /\ pc = "Failed"
       /\ error = "UpstreamError"
       /\ log = <<>>
       /\ ~returned.is

\* C6: the cache file is written only by a load_tags() called with caching
\* that has fetched every page 1..n with status 200, parsed and merged them
\* all; a load_tags() that fails leaves the file as it was.
C6_NoPartialSnapshot ==
  /\ cache # arg.file
       => /\ arg.cache
          /\ pc = "Done"
          /\ first.code = 200
          /\ Len(others) = (IF n > 1 THEN n - 1 ELSE 0)
          /\ \A i \in 1..Len(others) : others[i].code = 200
          /\ queue = <<>>
          /\ cache.tags = res.tags
  /\ pc = "Failed" => cache = arg.file

\* the document of page k of a crawl that has fetched every page
PageDoc(k) ==
  IF k = 1 THEN first.doc
  ELSE others[CHOOSE i \in 1..Len(others) : others[i].page = k].doc

\* the entries of the tag list of a page that has one
TagListOf(doc) == IF Len(doc.lists) = 1 THEN doc.lists[1] ELSE <<>>

\* the tags of the pages 1..n, read in the order of the pages, each identity
\* with the fields of its first occurrence
RECURSIVE FirstOccurrences(_, _)
FirstOccurrences(kept, tags) ==
  IF tags = <<>> THEN kept
  ELSE FirstOccurrences(
         IF \E m \in kept : SameIdentity(m, Head(tags)) THEN kept
         ELSE kept \cup {Head(tags)},
         Tail(tags))

InPageOrder ==
  FirstOccurrences({}, BuiltTags(Concat([k \in 1..n |->
                                           TagListOf(PageDoc(k))])))

Identities(tags) == {<<t.name, t.url_token>> : t \in tags}

\* C7: the TagSet that load_tags() returns from a crawl of several pages is
\* the one it returns when the other pages are delivered in the order of the
\* pages: the same tags with the same fields.
C7_OrderIndependent ==
  (pc = "Done" /\ n > 1) => returned.set.tags = InPageOrder

\* C7 (amended): the identities (name, url_token) of the tags that
\* load_tags() returns from a crawl of several pages do not depend on the
\* order in which the other pages are delivered, and an identity listed more
\* than once has the fields of the occurrence merged first: the first page's,
\* else that of the page delivered first.
C7_IdentitiesOrderIndependent ==
  (pc = "Done" /\ n > 1)
    => /\ Identities(returned.set.tags) = Identities(InPageOrder)
       /\ \A m \in returned.set.tags :
            \E i \in 1..Len(log) :
              /\ log[i] = m
              /\ \A j \in 1..(i - 1) : ~SameIdentity(log[j], m)

\* C7: pages 2 and 3 list the same identity with other fields, page 3 was
\* delivered before page 2, and the tag returned is page 3's.
C7_Witness ==
  /\ pc = "Done"
  /\ n = 3
  /\ others[1].page = 3
  /\ others[2].page = 2
  /\ first.doc.lists = <<<<>>>>
  /\ others[1].doc.lists # others[2].doc.lists
  /\ returned.set.tags = Range(BuiltTags(others[1].doc.lists[1]))
  /\ returned.set.tags # InPageOrder

\* C8: page_urls(n, skip_first) with n >= 1 returns, without skip_first, n
\* URLs of which the first has no page parameter and the k-th has the one
\* page parameter k, and with skip_first the last n - 1 of them.
C8_PageUrls ==
  (call.op = "page_urls" /\ call.n >= 1)
    => /\ call.result.error = ""
       /\ With([all \in {page_urls(url.value, call.n, FALSE).value} |->
            /\ Len(all) = call.n
            /\ PageParams(all[1]) = <<>>
            /\ \A k \in 2..call.n : PageParams(all[k]) = <<<<ToString(k)>>>>
            /\ call.result.value = IF call.skip_first THEN Tail(all) ELSE all])

\* the fields name[=value] of a query text, and the text of such fields
Fields(qs) == SplitOn(qs, "&")

FieldKey(f) == SplitOnce(f, "=")[1]

RECURSIVE JoinFields(_)
JoinFields(fs) ==
  IF fs = <<>> THEN <<>>
  ELSE IF Len(fs) = 1 THEN fs[1]
  ELSE fs[1] \o <<"&">> \o JoinFields(Tail(fs))

\* the caller's query without its page and utf8 parameters
WithoutPageAndUtf8(q) ==
  <<"?">> \o JoinFields(SelectSeq(Fields(Tail(q)),
                                  LAMBDA f : FieldKey(f) \notin {page, utf8}))

NameOf(q) ==
  With([u \in {TagSearchInit(q, TRUE)} |->
    IF u.error # "" THEN u ELSE StoredName(u.value)])

\* C9 (second half): the name is the name of the same query without its
\* page and utf8 parameters.
SameNameWithoutPageAndUtf8 ==
  (call.op = "name" /\ StartsWith(arg.url, <<"?">>))
    => call.result = NameOf(WithoutPageAndUtf8(arg.url))

\* C9: the name load_tags() gives its TagSet has no page pair and no utf8
\* pair, and is the name of the same query without its page and utf8
\* parameters.
C9_StoredName ==
  (call.op = "name" /\ StartsWith(arg.url, <<"?">>))
    => /\ call.result.error = ""
       /\ \A i \in 1..Len(Fields(call.result.value)) :
            FieldKey(Fields(call.result.value)[i]) \notin {page, utf8}
       /\ call.result = NameOf(WithoutPageAndUtf8(arg.url))

HeldUrlIsSearchUrl ==
  /\ url.value.scheme = protocol
  /\ url.value.netloc = domain
  /\ StartsWith(url.value.path, tag_search_root)
  /\ url.value.fragment = <<>>

InputPairs ==
  SelectSeq(RawPairs(unquote_plus(ReplaceTok(urlsplit(arg.url).query,
                                             "&amp;", "&"))),
            LAMBDA p : p.k \notin {page, utf8, view_adult})

OverrideDone == call.op = "override_query" /\ call.result.error = ""

\* the keys of the keyword arguments
KwKeys(kwargs) == {kwargs[i].k : i \in 1..Len(kwargs)}

\* the pairs of a list whose key is in keys, in their order
OfKeys(list, keys) == SelectSeq(list, LAMBDA p : p.k \in keys)

\* the pairs of a list whose key is not in keys, in their order
NotOfKeys(list, keys) == SelectSeq(list, LAMBDA p : p.k \notin keys)

\* C11: override_query without keyword arguments and without a sort key
\* returns a query that reads as the same (key, value) pairs, in the same
\* order, as the query it was given.
C11_SamePairs ==
  (OverrideDone /\ arg.kwargs = <<>> /\ ~arg.sorted)
    => RawPairs(call.result.value.query) = RawPairs(arg.url_split.query)

\* list with its first pair of key k replaced by (k, v) and its later pairs
\* of key k dropped, or with (k, v) appended when it has no pair of key k
ReplaceFirst(list, k, v) ==
  IF \A i \in 1..Len(list) : list[i].k # k
  THEN Append(list, [k |-> k, v |-> v])
  ELSE Concat([i \in 1..Len(list) |->
         IF list[i].k # k THEN <<list[i]>>
         ELSE IF \A j \in 1..(i - 1) : list[j].k # k
         THEN <<[k |-> k, v |-> v]>> ELSE <<>>])

\* C12: for a keyword argument k = v with v not None, the result has exactly
\* one pair (k, v): at the place of the first pair of key k of the query,
\* whose later pairs of key k are dropped, or after all the pairs of the
\* query when it has no pair of key k.
C12_ReplaceFirstDropRest ==
  (OverrideDone /\ ~arg.sorted)
    => \A i \in 1..Len(arg.kwargs) :
         ~arg.kwargs[i].none
           => With([rest \in {KwKeys(arg.kwargs) \ {arg.kwargs[i].k}} |->
                /\ Len(OfKeys(call.query_list.value, {arg.kwargs[i].k})) = 1
                /\ NotOfKeys(call.query_list.value, rest)
                     = ReplaceFirst(NotOfKeys(call.parsed.value, rest),
                                    arg.kwargs[i].k, arg.kwargs[i].v)])

KeyRank(k) ==
  CASE k = utf8 -> 1
    [] k = query_name -> 2
    [] k = query_type -> 3
    [] k = view_adult -> 5
    [] k = page -> 6
    [] OTHER -> 4

\* the list override_query has after its overrides, before it sorts
AfterOverrides == override_pairs(call.parsed.value, arg.kwargs)

\* C14: with the crawler's sort key the result holds the pairs left by the
\* overrides, utf8 first, then query[name], then query[type], then the
\* unlisted keys, then view_adult, then page, and the pairs of one of these
\* groups in the order the overrides left them in.
C14_SortedByWeight ==
  (OverrideDone /\ arg.sorted)
    => /\ Len(call.query_list.value) = Len(AfterOverrides)
       /\ \A i, j \in 1..Len(call.query_list.value) :
            i < j => KeyRank(call.query_list.value[i].k)
                       <= KeyRank(call.query_list.value[j].k)
       /\ \A r \in 1..6 :
            SelectSeq(call.query_list.value, LAMBDA p : KeyRank(p.k) = r)
              = SelectSeq(AfterOverrides, LAMBDA p : KeyRank(p.k) = r)

\* C14: a query of the pairs b and a was overridden with a key of every
\* weight and sorted.
C14_Witness ==
  /\ OverrideDone
  /\ arg.sorted
  /\ arg.kwargs = AllWeightsKwargs
  /\ [i \in 1..Len(call.query_list.value) |-> call.query_list.value[i].k]
       = <<utf8, query_name, query_type, <<"b">>, <<"a">>, <<"c">>,
           view_adult, page>>

(***************************************************************************)
(* Properties of URLs.split.                                               *)
(***************************************************************************)
\* C15: split is idempotent: split, with the same flags, of the re-joined
\* result of split(url) succeeds with the same five parts as split(url).
C15_SplitIdempotent ==
  call.op = "split_again" => call.again = call.result

\* the input is written with a protocol
HasProtocol == arg.parts.proto \notin {<<>>, <<"/", "/">>}

\* C16: with check_domain, split fails on an input with a protocol whose
\* host, without its www. prefix, is not the site domain as it is written;
\* and on every input that names the site domain, with or without www.
\* prefix in either case and with or without protocol, it succeeds with a
\* path that does not hold the www. prefix or the domain and, for an
\* absolute result, with the site domain as host.
C16_DomainCheck ==
  (call.op = "split" /\ arg.check_domain /\ arg.value.type = "str")
    => /\ (HasProtocol /\ arg.parts.host # domain)
            => call.result.error = "InvalidURL"
       /\ arg.parts.host = domain
            => /\ call.result.error = ""
               /\ arg.to_abs => call.result.value.netloc = domain
               /\ Range(call.result.value.path)
                    \cap (Range(domain) \cup {"www.", "WWW."}) = {}

\* C17: split fails with InvalidURL on every input that is not a string.
C17_NonStringFails ==
  (call.op = "split" /\ arg.value.type # "str")
    => call.result.error = "InvalidURL"

(***************************************************************************)
(* Properties of Tag.new_instance and Tag.dumps.                           *)
(***************************************************************************)
\* the token new_instance works on: the name, for the same-as-name indicator
EffectiveToken ==
  IF arg.url_token.s = token_match_name_indicator THEN arg.name.s
  ELSE arg.url_token.s

\* the name is no non-empty str
BadName == arg.name.type # "str" \/ arg.name.s = <<>>

\* a token that is no tag URL and has a "/" between its first and its last
\* character
InnerSlash(tok) == ~tag_url_re_match(tok) /\ "/" \in Range(Strip(tok, "/"))

SetObjects ==
  <<1>> \o (IF ta = NoTag THEN <<>> ELSE Refs(ta))
       \o (IF tb = NoTag THEN <<>> ELSE Refs(tb))

\* C19: the caller's set and the reference fields of the Tags built by
\* new_instance are all distinct set objects, also when the caller gave one
\* set for two fields and for both Tags or gave none; and adding an element
\* to one of them changes the elements of no other.
C19_OwnSets ==
  /\ [](\A i, j \in 1..Len(SetObjects) :
          i # j => SetObjects[i] # SetObjects[j])
  /\ [][pc = "Second"
          => Cardinality({i \in 1..Len(SetObjects) :
                            heap'[SetObjects[i]] # heap[SetObjects[i]]})
               <= 1]_vars

\* C19: two Tags were given the caller's non-empty set, the first for two
\* fields, and an element was added to one field of the first.
C19_Witness ==
  /\ pc = "Added"
  /\ arg.refs[1] = RefSet(1)
  /\ arg.refs[2] = RefSet(1)
  /\ heap[1] # {}
  /\ <<"x">> \in heap[ta.synonyms]
  /\ <<"x">> \notin heap[ta.parents] \cup heap[tb.synonyms] \cup heap[1]

\* the ids of the lines of a dump, in the order dumps() writes them
DumpOrder ==
  <<"-Tag:", "-URL:", "-Tp:", "-Canon:", "-Use:", "-Dt:", "\t=>Syn:",
    "\t=>Parent:", "\t=>Child:", "\t=>Sub:", "\t=>Meta:">>

\* the ids of the lines of the dump
DumpedIds == [i \in 1..Len(call.result.value) |-> call.result.value[i][1]]

DumpedTag == Deref(ta, heap)

\* C20: dumps() writes the name line and the url-token line, and the line
\* of type, canonical, usages, date and of each reference set exactly when
\* the field differs from its default (no type, canonical False, usages
\* -1, no date, empty set), in one fixed order and none twice.
C20_DumpsOnlyNonDefaults ==
  (call.op = "dumps" /\ call.result.error = "")
    => /\ DumpedIds = SelectSeq(DumpOrder, LAMBDA d : d \in Range(DumpedIds))
       /\ {"-Tag:", "-URL:"} \subseteq Range(DumpedIds)
       /\ "-Tp:" \in Range(DumpedIds) <=> DumpedTag.type \notin {None, ""}
       /\ "-Canon:" \in Range(DumpedIds) <=> DumpedTag.canonical # "False"
       /\ "-Use:" \in Range(DumpedIds) <=> DumpedTag.usages # -1
       /\ "-Dt:" \in Range(DumpedIds) <=> DumpedTag.date.set
       /\ \A i \in 1..5 :
            DumpOrder[6 + i] \in Range(DumpedIds)
              <=> Refs(DumpedTag)[i] # {}

(***************************************************************************)
(* Tag.sorting_key and TagSet.dumps                                        *)
(***************************************************************************)
SetDumped == pc = "Dumped" /\ call.op = "set_dumps"

\* the dates of the tags are naive or unset
NaiveDates(tags) == \A t \in tags : ~IsAware(t.date)

\* C21: for any two tags a and b of a collection where a.canonical is true
\* and b.canonical is false or unset, sorting_key(a) < sorting_key(b),
\* whatever their usages, type, name, url_token and date are
C21_CanonicalFirst ==
  SetDumped =>
    \A i, j \in 1..Len(call.order) :
      (call.order[i].canonical = "True" /\ call.order[j].canonical # "True")
        => /\ call.keys[i].error = ""
           /\ call.keys[j].error = ""
           /\ KeyLess(call.keys[i].value, call.keys[j].value)

\* C21 for tags whose dates are naive or unset
C21_CanonicalFirstNaive ==
  (SetDumped /\ NaiveDates(res.tags)) =>
    \A i, j \in 1..Len(call.order) :
      (call.order[i].canonical = "True" /\ call.order[j].canonical # "True")
        => /\ call.keys[i].error = ""
           /\ call.keys[j].error = ""
           /\ KeyLess(call.keys[i].value, call.keys[j].value)

\* the lines of the tags in ascending order of their keys, a separator line
\* between the lines of two consecutive tags
LinesInKeyOrder(tags, separator_line) ==
  With([o \in {CHOOSE o \in Orders(tags) :
                 \A i \in 1..(Len(o) - 1) :
                   KeyLess(sorting_key(o[i]).value,
                           sorting_key(o[i + 1]).value)} |->
    Concat([i \in 1..Len(o) |->
              (IF i > 1 THEN <<separator_line>> ELSE <<>>)
              \o dumps(o[i]).value])])

\* C22: sorting_key is defined for every tag of a collection, the keys of
\* two tags are comparable and differ, and the lines of TagSet.dumps are the
\* same for every order in which the set iterates
C22_DeterministicExport ==
  SetDumped =>
    /\ \A i \in 1..Len(call.order) : call.keys[i].error = ""
    /\ \A i, j \in 1..Len(call.order) :
         i # j => \/ KeyLess(call.keys[i].value, call.keys[j].value)
                  \/ KeyLess(call.keys[j].value, call.keys[i].value)
    /\ call.result.error = ""
    /\ \A o \in Orders(res.tags) :
         tagset_dumps(o, arg.separator_line) = call.result

\* C22 for tags whose dates are naive or unset
C22_DeterministicExportNaive ==
  (SetDumped /\ NaiveDates(res.tags)) =>
    /\ \A i \in 1..Len(call.order) : call.keys[i].error = ""
    /\ \A i, j \in 1..Len(call.order) :
         i # j => \/ KeyLess(call.keys[i].value, call.keys[j].value)
                  \/ KeyLess(call.keys[j].value, call.keys[i].value)
    /\ call.result.error = ""
    /\ \A o \in Orders(res.tags) :
         tagset_dumps(o, arg.separator_line) = call.result

\* C23: TagSet.dumps(separator) of k tags yields the lines of the tags in
\* ascending key order with a separator line between the lines of two
\* consecutive tags and nowhere else, k - 1 of them, and no line for an
\* empty set
C23_SeparatedDumps ==
  SetDumped =>
    /\ call.result.error = ""
    /\ call.result.value = LinesInKeyOrder(res.tags, arg.separator_line)
    /\ res.tags = {} => call.result.value = <<>>

\* C23 for tags whose dates are naive or unset
C23_SeparatedDumpsNaive ==
  (SetDumped /\ NaiveDates(res.tags)) =>
    /\ call.result.error = ""
    /\ call.result.value = LinesInKeyOrder(res.tags, arg.separator_line)
    /\ res.tags = {} => call.result.value = <<>>

(***************************************************************************)
(* The crawl on pages with other than one tag list or pager                *)
(***************************************************************************)
FirstFetched == first # NoResponse

\* a failure raised before the tag lists of the pages are looked at
FailedBeforeLists ==
  error \in {"UpstreamError", "MalformedPager", "AssertionError",
             "ValueError"}

\* a fetched page has other than one tag list, or the first page has more
\* than one pager
AmbiguousListsOrFirstPager ==
  \/ Len(first.doc.lists) # 1
  \/ Len(first.doc.pagers) > 1
  \/ \E i \in 1..Len(others) : Len(others[i].doc.lists) # 1

\* a page 2..n of a crawl has other than one pager
AmbiguousOtherPager ==
  \E i \in 1..Len(others) : Len(others[i].doc.pagers) # 1

\* C24: a crawl that fetched a page with a number of tag lists other than
\* one, or, with more than one page, a page with a number of pagers other
\* than one, fails with AmbiguousPage (unless it failed before the lists
\* were looked at), and returns and writes no collection
C24_AmbiguousPageFails ==
  (Terminal /\ FirstFetched
   /\ (AmbiguousListsOrFirstPager \/ AmbiguousOtherPager)) =>
    /\ pc = "Failed"
    /\ error = "AmbiguousPage" \/ FailedBeforeLists
    /\ ~returned.is
    /\ cache.state # "written"

\* C24 without the pagers of the pages 2..n
C24_AmbiguousListsFail ==
  (Terminal /\ FirstFetched /\ AmbiguousListsOrFirstPager) =>
    /\ pc = "Failed"
    /\ error = "AmbiguousPage" \/ FailedBeforeLists
    /\ ~returned.is
    /\ cache.state # "written"

(***************************************************************************)
(* TagSearch(url): the path of a search                                    *)
(***************************************************************************)
Constructed == pc # "New"

BareQuery == StartsWith(arg.url, <<"?">>)

\* the input as URLs.split canonicalizes it, a bare query taken as a query
\* of the search root
CanonicalInput ==
  split(IF BareQuery THEN tag_search_root \o arg.url ELSE arg.url,
        TRUE, 0, TRUE)

\* C25: TagSearch(url) succeeds only where the canonicalized path starts
\* with the search root and fails with NotASearchPage, with no object, for
\* every other path; a bare ?query gives the same object as the search root
\* followed by that query
C25_SearchRootOnly ==
  Constructed =>
    /\ url.error = ""
         => /\ CanonicalInput.error = ""
            /\ StartsWith(CanonicalInput.value.path, tag_search_root)
    /\ (/\ CanonicalInput.error = ""
        /\ ~StartsWith(CanonicalInput.value.path, tag_search_root))
         => /\ url = Fail("NotASearchPage")
            /\ pc = "NoObject"
    /\ BareQuery
         => url = TagSearchInit(tag_search_root \o arg.url, arg.view_adult)

\* a path of the site that is no search was refused
C25_Witness ==
  /\ Constructed
  /\ CanonicalInput.error = ""
  /\ ~StartsWith(CanonicalInput.value.path, tag_search_root)
  /\ url = Fail("NotASearchPage")

(***************************************************************************)
(* detect_pages_number                                                     *)
(***************************************************************************)
Detected == call.op = "detect_pages_number"

\* the places of the items of the pager that are not marked next
NotNext == {i \in 1..Len(arg.pager_ol) : "next" \notin arg.pager_ol[i].class}

\* the number of items marked next behind the last item that is not
TrailingNext ==
  Cardinality({i \in 1..Len(arg.pager_ol) : \A j \in NotNext : j < i})

\* C26: detect_pages_number returns the integer that is the trimmed text of
\* the last item of the pager not marked next, however many items marked
\* next follow it, and fails with MalformedPager when the pager has no item
\* or only items marked next
C26_LastItemNotNext ==
  Detected =>
    IF NotNext = {} THEN call.result = Fail("MalformedPager")
    ELSE With([last \in {CHOOSE i \in NotNext : \A j \in NotNext : j <= i} |->
           \A k \in 0..9 :
             Strip(arg.pager_ol[last].text, " ") = <<ToString(k)>>
               => call.result = Ok(k)])

\* a page number was read in front of two items marked next
C26_Witness ==
  /\ Detected
  /\ NotNext # {}
  /\ TrailingNext = 2
  /\ call.result = Ok(2)

(***************************************************************************)
(* The caller's query in the page URLs                                     *)
(***************************************************************************)
\* the pairs of a query as a server reads them, without those of the keys
\* the crawler sets itself
CallerPairs(qs) ==
  SelectSeq(RawPairs(qs), LAMBDA p : p.k \notin {utf8, view_adult, page})

\* C27: for a query the constructor accepted, page_urls does not fail, and
\* each of its URLs decodes to the pairs of the caller's query for all keys
\* other than utf8, view_adult and page (as a set of pairs, the order being
\* that of the key weights), also where a value holds encoded characters
C27_QueryCarried ==
  (call.op = "page_urls" /\ call.n >= 1 /\ ~call.skip_first)
    => /\ call.result.error = ""
       /\ \A i \in 1..Len(call.result.value) :
            Range(CallerPairs(urlsplit(call.result.value[i]).query))
              = Range(CallerPairs(urlsplit(arg.url).query))

\* C27 for queries without encoded characters
C27_PlainQueryCarried ==
  (/\ call.op = "page_urls" /\ call.n >= 1 /\ ~call.skip_first
   /\ "%" \notin Range(arg.url) /\ "+" \notin Range(arg.url)
   /\ "&amp;" \notin Range(arg.url))
    => /\ call.result.error = ""
       /\ \A i \in 1..Len(call.result.value) :
            Range(CallerPairs(urlsplit(call.result.value[i]).query))
              = Range(CallerPairs(urlsplit(arg.url).query))

(***************************************************************************)
(* The names of the cache files                                            *)
(***************************************************************************)
BothCached == Len(log) = 2 /\ pc = "New"

\* C28: two crawls whose stored names differ write to different cache files
C28_NoCollision ==
  BothCached => (log[1].name # log[2].name => log[1].file # log[2].file)

\* C28 for stored names without reserved characters
C28_NoCollisionPlain ==
  (/\ BothCached
   /\ Range(log[1].name) \cap reserved_chars = {}
   /\ Range(log[2].name) \cap reserved_chars = {})
    => (log[1].name # log[2].name => log[1].file # log[2].file)

(***************************************************************************)
(* StoriesDatabase.parse_text and cleanup_stories                          *)
(***************************************************************************)
Parsed == pc = "Parsed" /\ call.op = "parse_text"

\* the lines of the text, stripped
TextLines == [i \in 1..Len(arg.text_lines) |-> StripLine(arg.text_lines[i])]

\* the places of the title lines
Titles == {i \in 1..Len(TextLines) : story_name_match(TextLines[i]).error = ""}

\* the lines behind place j up to the next title, without the empty lines
\* at their start and end
LinesOpenedAt(j) ==
  With([next \in {CHOOSE t \in (Titles \cup {Len(TextLines) + 1}) :
                    /\ t > j
                    /\ \A u \in Titles : u > j => t <= u} |->
    Strip(SubSeq(TextLines, j + 1, next - 1), <<>>)])

\* a line that is not empty precedes the first title
TextBeforeTitles ==
  \E i \in 1..Len(TextLines) :
    /\ TextLines[i] # <<>>
    /\ \A t \in Titles : i < t

\* the database the text describes: each title opens a variant of its
\* name, the text in front of the first title is one unnamed variant
DescribedStories ==
  [nm \in {story_name_match(TextLines[t]).value : t \in Titles}
          \cup (IF TextBeforeTitles THEN {unnamed_story_key} ELSE {}) |->
     With([openers \in {SelectSeq([i \in 1..(Len(TextLines) + 1) |-> i - 1],
                          LAMBDA j :
                            IF j = 0
                            THEN nm = unnamed_story_key /\ TextBeforeTitles
                            ELSE /\ j \in Titles
                                 /\ story_name_match(TextLines[j]).value
                                      = nm)} |->
       [k \in 1..Len(openers) |-> LinesOpenedAt(openers[k])]])]

\* C29: parse_text puts every line that is no title into the variant opened
\* by the nearest title before it, under the name of that title, or into
\* one unnamed variant when no title precedes it, without the empty lines at
\* the start and end of a variant, and returns the number of titles, plus
\* one if text precedes the first title
C29_ParseByTitles ==
  Parsed =>
    /\ db = DescribedStories
    /\ call.result.value
         = Cardinality(Titles) + (IF TextBeforeTitles THEN 1 ELSE 0)

\* C29 for texts that start with an empty line in front of a line of text
C29_ParseByTitlesAfterBlank ==
  (/\ Parsed
   /\ Len(TextLines) >= 2
   /\ TextLines[1] = <<>>
   /\ TextLines[2] # <<>>
   /\ 2 \notin Titles)
    => /\ db = DescribedStories
       /\ call.result.value
            = Cardinality(Titles) + (IF TextBeforeTitles THEN 1 ELSE 0)

Cleaned == pc = "Cleaned" /\ call.op = "cleanup_stories"

\* a line holds a character code of html_chars_map
HasHtmlCode(line) ==
  \E i \in 1..(Len(line) - 1), k \in 1..Len(html_chars_map) :
    SubSeq(line, i, i + 1) = html_chars_map[k].code

\* the variants of a story have pairwise different identifier keys, none is
\* empty, and the story has a variant
DistinctNonEmpty(story_variants) ==
  /\ story_variants # <<>>
  /\ \A i \in 1..Len(story_variants) :
       /\ story_variants[i] # <<>>
       /\ \A j \in 1..Len(story_variants) :
            i # j => story_identifier_key(story_variants[i])
                       # story_identifier_key(story_variants[j])

\* the lines of a variant as cleanup_stories cleans them
CleanLines(variant) ==
  [k \in 1..Len(variant) |-> cleanup_single_line(variant[k])]

\* a variant left is one of the variants the story had, as it was or with
\* its lines cleaned, and none before that one had its identifier key
KeptIsEarliest(before, variant) ==
  \E i \in 1..Len(before) :
    /\ variant \in {before[i], CleanLines(before[i])}
    /\ \A j \in 1..(i - 1) :
         story_identifier_key(CleanLines(before[j]))
           # story_identifier_key(CleanLines(before[i]))

\* C30: after cleanup_stories every line of every variant left is stripped
\* and holds no HTML character code, the variants of a story have pairwise
\* different identifier keys, the earliest of equal variants being the one
\* kept, and no empty variant and no story without variants is left, also
\* in the stories that lost no variant
C30_CleanedStories ==
  Cleaned =>
    \A nm \in DOMAIN db :
      /\ DistinctNonEmpty(db[nm])
      /\ \A i \in 1..Len(db[nm]) :
           /\ KeptIsEarliest(call.before[nm], db[nm][i])
           /\ \A k \in 1..Len(db[nm][i]) :
                /\ StripLine(db[nm][i][k]) = db[nm][i][k]
                /\ ~HasHtmlCode(db[nm][i][k])

\* C30 without the state of the lines
C30_DistinctVariantsLeft ==
  Cleaned =>
    \A nm \in DOMAIN db :
      /\ DistinctNonEmpty(db[nm])
      /\ \A i \in 1..Len(db[nm]) : KeptIsEarliest(call.before[nm], db[nm][i])

=============================================================================
